---- MODULE Spec2Model ----
(***************************************************************************)
(* StoneKeeper photograph ingestion: the upload handler                    *)
(* (backend/src/api/photos.py), the storage service                        *)
(* (backend/src/services/photo_service.py) and the EXIF service            *)
(* (backend/src/services/exif_service.py).                                 *)
(*                                                                         *)
(* Text is a sequence of one-character strings wherever the code inspects  *)
(* it (file names, MIME types, EXIF date values); a path is the sequence   *)
(* of its components, as pathlib keeps it.  None is the empty sequence.    *)
(***************************************************************************)
EXTENDS Integers, Sequences, FiniteSets, TLC

\* ------------------------------------------------------------------ bounds
NumReqs == 2
MaxTicks == 1
NumUuids == 2
NumTmp == 2

Reqs == 1..NumReqs

None == <<>>

\* ------------------------------------------------------------------ text
RECURSIVE Join(_)
Join(cs) == IF cs = <<>> THEN "" ELSE Head(cs) \o Join(Tail(cs))

LowerChar(c) ==
  CASE c = "A" -> "a" [] c = "B" -> "b" [] c = "C" -> "c" [] c = "D" -> "d"
    [] c = "E" -> "e" [] c = "F" -> "f" [] c = "G" -> "g" [] c = "H" -> "h"
    [] c = "I" -> "i" [] c = "J" -> "j" [] c = "K" -> "k" [] c = "L" -> "l"
    [] c = "M" -> "m" [] c = "N" -> "n" [] c = "O" -> "o" [] c = "P" -> "p"
    [] c = "Q" -> "q" [] c = "R" -> "r" [] c = "S" -> "s" [] c = "T" -> "t"
    [] c = "U" -> "u" [] c = "V" -> "v" [] c = "W" -> "w" [] c = "X" -> "x"
    [] c = "Y" -> "y" [] c = "Z" -> "z" [] OTHER -> c

Lower(cs) == [i \in 1..Len(cs) |-> LowerChar(cs[i])]

EndsWith(cs, suf) ==
  /\ Len(suf) <= Len(cs)
  /\ SubSeq(cs, Len(cs) - Len(suf) + 1, Len(cs)) = suf

\* str.rfind: the last index of c in cs, 0 when there is none (1-based)
RFind(cs, c) ==
  LET hits == {i \in 1..Len(cs) : cs[i] = c}
  IN IF hits = {} THEN 0 ELSE CHOOSE i \in hits : \A j \in hits : j <= i

\* os.path.splitext(p)[1]: the text from the last dot of the last component,
\* empty when that component has no dot or only leading dots
SplitExt(p) ==
  LET sepIndex == RFind(p, "/")
      dotIndex == RFind(p, ".")
  IN IF /\ dotIndex > sepIndex
        /\ \E i \in (sepIndex + 1)..(dotIndex - 1) : p[i] # "."
     THEN SubSeq(p, dotIndex, Len(p))
     ELSE <<>>

\* ------------------------------------------------------------------ config
MAX_FILE_SIZE_BYTES == 20 * 1024 * 1024

ALLOWED_MIME_TYPES ==
  { <<"i","m","a","g","e","/","j","p","e","g">>,
    <<"i","m","a","g","e","/","p","n","g">>,
    <<"i","m","a","g","e","/","t","i","f","f">> }

ALLOWED_EXTENSIONS ==
  { <<".","j","p","g">>, <<".","j","p","e","g">>, <<".","p","n","g">>,
    <<".","t","i","f","f">>, <<".","t","i","f">> }

UPLOAD_DIR == <<"app", "photos">>

is_allowed_file_extension(filename) ==
  \E ext \in ALLOWED_EXTENSIONS : EndsWith(Lower(filename), ext)

is_allowed_mime_type(mime_type) == Lower(mime_type) \in ALLOWED_MIME_TYPES

\* ------------------------------------------------------------------ EXIF dates
DigitValue(c) ==
  CASE c = "0" -> 0 [] c = "1" -> 1 [] c = "2" -> 2 [] c = "3" -> 3
    [] c = "4" -> 4 [] c = "5" -> 5 [] c = "6" -> 6 [] c = "7" -> 7
    [] c = "8" -> 8 [] c = "9" -> 9 [] OTHER -> -1

IsDigits(cs) == cs # <<>> /\ \A i \in 1..Len(cs) : DigitValue(cs[i]) >= 0

RECURSIVE Number(_)
Number(cs) ==
  IF cs = <<>> THEN 0
  ELSE 10 * Number(SubSeq(cs, 1, Len(cs) - 1)) + DigitValue(cs[Len(cs)])

IsSpace(c) == c \in {" ", "\t", "\n"}

\* a byte that is no valid UTF-8 on its own
BadByte == "\\xff"

\* bytes.decode("utf-8") raises UnicodeDecodeError (a ValueError)
DecodesAsUtf8(cs) == \A i \in 1..Len(cs) : cs[i] # BadByte

IsLeap(y) == (y % 4 = 0 /\ y % 100 # 0) \/ y % 400 = 0

DaysInMonth(y, m) ==
  IF m = 2 THEN (IF IsLeap(y) THEN 29 ELSE 28)
  ELSE IF m \in {4, 6, 9, 11} THEN 30 ELSE 31

\* The ways cs can be laid out as %Y:%m:%d %H:%M:%S : the lengths of the
\* month, day, blank, hour, minute and second fields.  %Y is four digits,
\* the other fields one or two, the blank of the format is any run of blanks.
DateLayouts(cs) ==
  { l \in {1,2} \X {1,2} \X (1..Len(cs)) \X {1,2} \X {1,2} \X {1,2} :
      LET m0 == 6
          d0 == m0 + l[1] + 1
          w0 == d0 + l[2]
          h0 == w0 + l[3]
          M0 == h0 + l[4] + 1
          S0 == M0 + l[5] + 1
          day == SubSeq(cs, d0, w0 - 1)
      IN /\ S0 + l[6] - 1 = Len(cs)
         /\ IsDigits(SubSeq(cs, 1, 4))
         /\ cs[5] = ":"
         /\ IsDigits(SubSeq(cs, m0, d0 - 2))
         /\ Number(SubSeq(cs, m0, d0 - 2)) \in 1..12
         /\ cs[d0 - 1] = ":"
         /\ \/ IsDigits(day) /\ Number(day) \in 1..31
            \/ Len(day) = 2 /\ day[1] = " " /\ DigitValue(day[2]) \in 1..9
         /\ \A i \in w0..(h0 - 1) : IsSpace(cs[i])
         /\ IsDigits(SubSeq(cs, h0, M0 - 2))
         /\ Number(SubSeq(cs, h0, M0 - 2)) \in 0..23
         /\ cs[M0 - 1] = ":"
         /\ IsDigits(SubSeq(cs, M0, S0 - 2))
         /\ Number(SubSeq(cs, M0, S0 - 2)) \in 0..59
         /\ cs[S0 - 1] = ":"
         /\ IsDigits(SubSeq(cs, S0, Len(cs)))
         /\ Number(SubSeq(cs, S0, Len(cs))) \in 0..61 }

\* datetime.strptime(cs, "%Y:%m:%d %H:%M:%S"): <<Y, M, D, h, m, s>>, or None
\* for the ValueError of a value that does not match or names no real instant
Strptime(cs) ==
  IF DateLayouts(cs) = {} THEN None
  ELSE
    LET l == CHOOSE x \in DateLayouts(cs) : TRUE
        m0 == 6
        d0 == m0 + l[1] + 1
        w0 == d0 + l[2]
        h0 == w0 + l[3]
        M0 == h0 + l[4] + 1
        S0 == M0 + l[5] + 1
        dayText == SubSeq(cs, d0, w0 - 1)
        year == Number(SubSeq(cs, 1, 4))
        month == Number(SubSeq(cs, m0, d0 - 2))
        day == IF IsDigits(dayText) THEN Number(dayText) ELSE DigitValue(dayText[2])
        hour == Number(SubSeq(cs, h0, M0 - 2))
        minute == Number(SubSeq(cs, M0, S0 - 2))
        second == Number(SubSeq(cs, S0, Len(cs)))
    IN IF year >= 1 /\ day <= DaysInMonth(year, month) /\ second <= 59
       THEN <<year, month, day, hour, minute, second>>
       ELSE None

\* a chain that prefers DateTimeDigitized to DateTimeOriginal
ExtractDateDigitizedFirst(exif_dict) ==
  LET s1 == exif_dict.Exif.DateTimeDigitized
      s2 == IF s1 = <<>> THEN exif_dict.Exif.DateTimeOriginal ELSE s1
      date_str == IF s2 = <<>> THEN exif_dict.Zeroth.DateTime ELSE s2
  IN IF date_str # <<>>
     THEN IF DecodesAsUtf8(date_str) THEN Strptime(date_str) ELSE None
     ELSE None

\* exif_dict is [Exif |-> [DateTimeOriginal, DateTimeDigitized], Zeroth |-> [DateTime]];
\* a tag that is missing reads as None
_extract_date_taken(exif_dict) ==
  LET exif_ifd == exif_dict.Exif
      s1 == exif_ifd.DateTimeOriginal
      s2 == IF s1 = <<>> THEN exif_ifd.DateTimeDigitized ELSE s1
      date_str == IF s2 = <<>> THEN exif_dict.Zeroth.DateTime ELSE s2
  IN IF date_str # <<>>
     THEN IF DecodesAsUtf8(date_str) THEN Strptime(date_str) ELSE None
     ELSE None

\* ------------------------------------------------------------------ EXIF GPS
\* An EXIF rational is the pair <<numerator, denominator>> piexif returns,
\* both unsigned.  A Python float is represented by the exact fraction
\* [num, den], den > 0, that it approximates.  A call either returns a value
\* (exc = "") or raises the exception exc names.
Frac(n, d) == [num |-> n, den |-> d]
Returned(v) == [exc |-> "", value |-> v]
Raised(e, v) == [exc |-> e, value |-> v]

\* a sum that takes the seconds for sixtieths of a degree
DmsSumSixtieths(dms) ==
  Frac(dms[1][1] * dms[2][2] * dms[3][2] * 60
         + dms[2][1] * dms[1][2] * dms[3][2]
         + dms[3][1] * dms[1][2] * dms[2][2],
       dms[1][2] * dms[2][2] * dms[3][2] * 60)

\* degrees + (minutes / 60.0) + (seconds / 3600.0), over one denominator
DmsSum(dms) ==
  LET degrees == dms[1]
      minutes == dms[2]
      seconds == dms[3]
  IN Frac(degrees[1] * minutes[2] * seconds[2] * 3600
            + minutes[1] * degrees[2] * seconds[2] * 60
            + seconds[1] * degrees[2] * minutes[2],
          degrees[2] * minutes[2] * seconds[2] * 3600)

\* decimal = -decimal when negative
Signed(decimal, negative) ==
  IF negative THEN [decimal EXCEPT !.num = -decimal.num] ELSE decimal

\* a test that takes only S for a negative hemisphere
RefIsSouth(ref) == ref = <<"S">>

\* ref in ["S", "W"]
RefInSW(ref) == ref \in {<<"S">>, <<"W">>}

\* _dms_to_decimal(dms, ref): the three divisions come first, then the
\* decoding of ref, then the sign
_dms_to_decimal(dms, ref) ==
  IF \E i \in 1..3 : dms[i][2] = 0
  THEN Raised("ZeroDivisionError", Frac(0, 1))
  ELSE IF ~DecodesAsUtf8(ref)
  THEN Raised("UnicodeDecodeError", Frac(0, 1))
  ELSE Returned(Signed(DmsSum(dms), RefInSW(ref)))

\* a test that asks only for the two coordinates
AllOfLatLon(lat, lat_ref, lon, lon_ref) == lat # <<>> /\ lon # <<>>

\* all([lat, lat_ref, lon, lon_ref]): a missing tag reads as None, and an
\* empty value is as false as None
AllOf(lat, lat_ref, lon, lon_ref) ==
  lat # <<>> /\ lat_ref # <<>> /\ lon # <<>> /\ lon_ref # <<>>

\* an except clause for ValueError alone
ExceptValueError(exc) == exc \in {"ValueError", "UnicodeDecodeError"}

\* the `except Exception` of _extract_gps
GpsExcept(exc) == exc # ""

\* return (lat_decimal, lon_decimal) inside the try: an exception of either
\* conversion goes to the except clause
GpsPair(lat_decimal, lon_decimal) ==
  LET exc == IF lat_decimal.exc # "" THEN lat_decimal.exc ELSE lon_decimal.exc
  IN IF exc = ""
     THEN Returned(<<lat_decimal.value, lon_decimal.value>>)
     ELSE IF GpsExcept(exc) THEN Returned(None) ELSE Raised(exc, None)

\* _extract_gps(exif_dict): None, or the pair <<latitude, longitude>>
_extract_gps(exif_dict) ==
  LET gps_ifd == exif_dict.GPS
      lat == gps_ifd.GPSLatitude
      lat_ref == gps_ifd.GPSLatitudeRef
      lon == gps_ifd.GPSLongitude
      lon_ref == gps_ifd.GPSLongitudeRef
  IN IF ~AllOf(lat, lat_ref, lon, lon_ref)
     THEN Returned(None)   \* covers `if not gps_ifd` as well
     ELSE GpsPair(_dms_to_decimal(lat, lat_ref), _dms_to_decimal(lon, lon_ref))

\* ------------------------------------------------------------------ files
\* What a decoder sees in a file: ok is FALSE for bytes that are no image,
\* has_exif says whether the image carries an EXIF segment, exif_corrupt
\* whether piexif cannot parse that segment, exif is what piexif.load returns
\* for it.  NoExif is the dictionary with no tag in any IFD.
NoGps == [GPSLatitude |-> <<>>, GPSLatitudeRef |-> <<>>,
          GPSLongitude |-> <<>>, GPSLongitudeRef |-> <<>>]

NoExif == [Exif |-> [DateTimeOriginal |-> <<>>, DateTimeDigitized |-> <<>>,
                     FocalLength |-> <<>>, FNumber |-> <<>>,
                     ExposureTime |-> <<>>, ISOSpeedRatings |-> <<>>],
           Zeroth |-> [DateTime |-> <<>>, Make |-> <<>>, Model |-> <<>>],
           GPS |-> NoGps]

NotAnImage == [ok |-> FALSE, format |-> "", mode |-> "", width |-> 0, height |-> 0,
               has_exif |-> FALSE, exif_corrupt |-> FALSE, exif |-> NoExif]

JpegImage == [ok |-> TRUE, format |-> "JPEG", mode |-> "RGB", width |-> 3000,
              height |-> 2000, has_exif |-> TRUE, exif_corrupt |-> FALSE,
              exif |-> [Exif |-> [DateTimeOriginal |-> <<"2","0","2","4",":","0","1",":","1","5"," ","1","4",":","3","0",":","0","0">>,
                                  DateTimeDigitized |-> <<"2","0","2","4",":","0","1",":","1","6"," ","0","9",":","0","0",":","0","0">>,
                                  FocalLength |-> <<50, 1>>, FNumber |-> <<28, 10>>,
                                  ExposureTime |-> <<1, 250>>, ISOSpeedRatings |-> <<100>>],
                        Zeroth |-> [DateTime |-> <<>>, Make |-> <<"C","a","n","o","n">>,
                                    Model |-> <<"E","O","S"," ","8","0","D">>],
                        GPS |-> [GPSLatitude |-> <<<<40, 1>>, <<42, 1>>, <<46, 1>>>>,
                                 GPSLatitudeRef |-> <<"N">>,
                                 GPSLongitude |-> <<<<74, 1>>, <<0, 1>>, <<21, 1>>>>,
                                 GPSLongitudeRef |-> <<"W">>]]]

\* the JPEG with a Make that is no UTF-8 and two ISO values
MalformedJpegImage ==
  [JpegImage EXCEPT !.exif.Zeroth.Make = <<"C", BadByte>>,
                    !.exif.Exif.ISOSpeedRatings = <<100, 200>>]

\* a JPEG taken on the equator whose EXIF holds the four GPS tags and
\* nothing else
EquatorImage ==
  [JpegImage EXCEPT !.exif = [NoExif EXCEPT !.GPS =
     [GPSLatitude |-> <<<<0, 1>>, <<0, 1>>, <<0, 1>>>>, GPSLatitudeRef |-> <<"N">>,
      GPSLongitude |-> <<<<78, 1>>, <<27, 1>>, <<21, 1>>>>, GPSLongitudeRef |-> <<"W">>]]]

PngImage == [ok |-> TRUE, format |-> "PNG", mode |-> "RGBA", width |-> 100,
             height |-> 80, has_exif |-> FALSE, exif_corrupt |-> FALSE, exif |-> NoExif]

\* The bytes of a file: name identifies the byte string, whole is FALSE for a
\* file that holds only the beginning of it (a write that failed midway).
JpegBytes == [name |-> "jpeg-bytes", size |-> 3 * 1024 * 1024, whole |-> TRUE,
              image |-> JpegImage]
PngBytes == [name |-> "png-bytes", size |-> MAX_FILE_SIZE_BYTES, whole |-> TRUE,
             image |-> PngImage]
MalformedJpegBytes == [name |-> "malformed-jpeg-bytes", size |-> 2 * 1024 * 1024,
                       whole |-> TRUE, image |-> MalformedJpegImage]
EquatorBytes == [name |-> "equator-jpeg-bytes", size |-> 1024 * 1024,
                 whole |-> TRUE, image |-> EquatorImage]
GarbageBytes == [name |-> "garbage-bytes", size |-> 1, whole |-> TRUE,
                 image |-> NotAnImage]
HugeBytes == [name |-> "huge-bytes", size |-> MAX_FILE_SIZE_BYTES + 1, whole |-> TRUE,
              image |-> JpegImage]
NoBytes == [name |-> "", size |-> 0, whole |-> TRUE, image |-> NotAnImage]

Truncated(bytes) ==
  [bytes EXCEPT !.size = bytes.size \div 2, !.whole = FALSE, !.image = NotAnImage]

\* The upload requests the model draws from (UploadFile plus the form fields).
Uploads ==
  { [filename |-> <<"g","r","a","v","e",".","j","p","g">>, content_type |-> <<"i","m","a","g","e","/","j","p","e","g">>,
     cemetery_id |-> 1, content |-> JpegBytes],
    [filename |-> <<"e","d","g","e",".","P","N","G">>, content_type |-> <<"I","m","a","g","e","/","P","N","G">>,
     cemetery_id |-> 1, content |-> PngBytes],
    [filename |-> <<".","j","p","g">>, content_type |-> <<"i","m","a","g","e","/","j","p","e","g">>,
     cemetery_id |-> 1, content |-> GarbageBytes],
    [filename |-> <<"o","l","d",".","j","p","e","g">>, content_type |-> <<"i","m","a","g","e","/","j","p","e","g">>,
     cemetery_id |-> 1, content |-> MalformedJpegBytes],
    [filename |-> <<"m","i","t","a","d",".","j","p","g">>, content_type |-> <<"i","m","a","g","e","/","j","p","e","g">>,
     cemetery_id |-> 1, content |-> EquatorBytes],
    [filename |-> <<"b","i","g",".","j","p","g">>, content_type |-> <<"i","m","a","g","e","/","j","p","e","g">>,
     cemetery_id |-> 1, content |-> HugeBytes],
    [filename |-> <<"n","o","t","e","s",".","t","x","t">>, content_type |-> <<"t","e","x","t","/","p","l","a","i","n">>,
     cemetery_id |-> 1, content |-> HugeBytes],
    [filename |-> <<"s","c","a","n",".","t","i","f">>, content_type |-> <<"a","p","p","l","i","c","a","t","i","o","n","/","p","d","f">>,
     cemetery_id |-> 1, content |-> JpegBytes],
    [filename |-> <<"g","r","a","v","e",".","j","p","g">>, content_type |-> <<"i","m","a","g","e","/","j","p","e","g">>,
     cemetery_id |-> 2, content |-> JpegBytes] }

NoUpload == [filename |-> <<>>, content_type |-> <<>>, cemetery_id |-> 0,
             content |-> NoBytes]

\* ------------------------------------------------------------------ state
VARIABLES
  up,           \* per request: the locals of upload_photo
  hist,         \* per request: what the request has done so far (history)
  fs,           \* the files: path -> bytes
  writer,       \* history: path -> the request that wrote the file
  dirs,         \* the directories that exist
  clock,        \* the UTC clock, to the month: [year, month]
  ticks,        \* how often the clock has advanced
  issued,       \* the identifiers uuid4() has returned
  allocs,       \* history: the calls of _get_storage_path
  photographs,  \* the photographs table
  cemeteries,   \* the cemeteries table: id -> row
  call,         \* one call of a helper function: [op, arg, done, result]
  images        \* the images table of the tagging application, in id order

vars == <<up, hist, fs, writer, dirs, clock, ticks, issued, allocs, photographs,
          cemeteries, call, images>>

NoCall == [op |-> "none", arg |-> NoExif, done |-> TRUE, result |-> None]

\* ------------------------------------------------------------------ storage paths
DigitChar(d) ==
  CASE d = 0 -> "0" [] d = 1 -> "1" [] d = 2 -> "2" [] d = 3 -> "3" [] d = 4 -> "4"
    [] d = 5 -> "5" [] d = 6 -> "6" [] d = 7 -> "7" [] d = 8 -> "8" [] d = 9 -> "9"

\* the decimal digits of n, zero-padded to width (strftime's %Y and %m)
RECURSIVE ZeroPad(_, _)
ZeroPad(n, width) ==
  IF width = 0 THEN "" ELSE ZeroPad(n \div 10, width - 1) \o DigitChar(n % 10)

StrftimeYear(now) == ZeroPad(now.year, 4)
StrftimeMonth(now) == ZeroPad(now.month, 2)

Parent(path) == SubSeq(path, 1, Len(path) - 1)

\* Path.mkdir(parents=True, exist_ok=True)
MkdirParents(ds, d) == ds \cup {SubSeq(d, 1, k) : k \in 1..Len(d)}

\* a file name with the role suffix after the extension
StoragePathSuffixLast(now, photo_uuid, file_extension, suffix) ==
  UPLOAD_DIR \o <<StrftimeYear(now), StrftimeMonth(now)>>
             \o <<photo_uuid \o Join(file_extension) \o suffix>>

\* _get_storage_path, the path it returns when the clock reads now
StoragePath(now, photo_uuid, file_extension, suffix) ==
  UPLOAD_DIR \o <<StrftimeYear(now), StrftimeMonth(now)>>
             \o <<photo_uuid \o suffix \o Join(file_extension)>>

JPG == <<".","j","p","g">>

\* str(uuid4()) draws from these
Uuid(i) == "6f9619ff-8b86-4d01-b42d-00000000000" \o DigitChar(i)
UuidPool == {Uuid(i) : i \in 1..NumUuids}

\* an identifier generator that can repeat itself
Uuid4Any(used) == UuidPool

\* uuid4(): an identifier never returned before
Uuid4(used) == UuidPool \ used

\* tempfile.NamedTemporaryFile(suffix=...): a name no existing file has (the
\* names are interchangeable, so the first free one stands for any of them)
TmpPath(i, suffix) == <<"tmp", ("tmp0a1b2c3" \o DigitChar(i)) \o Join(suffix)>>
NamedTemporaryFile(fsys, suffix) ==
  LET free == {i \in 1..NumTmp : TmpPath(i, suffix) \notin DOMAIN fsys}
  IN {TmpPath(i, suffix) : i \in {j \in free : \A k \in free : j <= k}}

\* file.filename or ".jpg"
FilenameOrDefault(filename) == IF filename = <<>> THEN JPG ELSE filename

WriteFile(f, p, v) == [q \in DOMAIN f \cup {p} |-> IF q = p THEN v ELSE f[q]]
RemoveFile(f, p) == [q \in DOMAIN f \ {p} |-> f[q]]

\* shutil.move in place of the copy: the source is gone
Move(fsys, src, dst) == RemoveFile(WriteFile(fsys, dst, fsys[src]), src)

\* shutil.copy2(src, dst): dst holds the bytes of src
Copy2(fsys, src, dst) == WriteFile(fsys, dst, fsys[src])

\* the finally block of upload_photo
Finally(fsys, temp_path) ==
  IF temp_path \in DOMAIN fsys THEN RemoveFile(fsys, temp_path) ELSE fsys

\* ------------------------------------------------------------------ EXIF camera and settings
\* str(n) of a non-negative int
RECURSIVE DecStr(_)
DecStr(n) == IF n < 10 THEN DigitChar(n) ELSE DecStr(n \div 10) \o DigitChar(n % 10)

\* f"{n / d:.<places>f}" for n >= 0, d > 0: the quotient rounded to places
\* decimals, a tie to the even digit
FormatFixed(n, d, places) ==
  LET scale == 10 ^ places
      q == (n * scale) \div d
      rem == (n * scale) % d
      r == IF 2 * rem > d \/ (2 * rem = d /\ q % 2 = 1) THEN q + 1 ELSE q
  IN DecStr(r \div scale)
       \o (IF places = 0 THEN "" ELSE "." \o ZeroPad(r % scale, places))

NoCameraInfo == [camera_make |-> None, camera_model |-> None]

\* _extract_camera_info(exif_dict): Make is decoded first, then Model; a
\* decode that fails raises out of the function
_extract_camera_info(exif_dict) ==
  LET ifd_0th == exif_dict.Zeroth
      make == ifd_0th.Make
      model == ifd_0th.Model
  IN IF make # <<>> /\ ~DecodesAsUtf8(make)
     THEN Raised("UnicodeDecodeError", NoCameraInfo)
     ELSE IF model # <<>> /\ ~DecodesAsUtf8(model)
     THEN Raised("UnicodeDecodeError", NoCameraInfo)
     ELSE Returned([camera_make |-> make, camera_model |-> model])

\* a rational formatted only when the division is defined
FormatRational(rational, places, prefix, suffix) ==
  IF rational = <<>> \/ rational[2] = 0
  THEN None
  ELSE <<prefix \o FormatFixed(rational[1], rational[2], places) \o suffix>>

\* every exposure time divided, 1/d too
ShutterSpeedDecimal(exposure_time) == FormatRational(exposure_time, 2, "", "s")

\* the shutter_speed field: numerator 1 is written as 1/denominator without
\* a division, any other value is divided
ShutterSpeed(exposure_time) ==
  IF exposure_time = <<>>
  THEN None
  ELSE IF exposure_time[1] = 1
  THEN <<"1/" \o DecStr(exposure_time[2])>>
  ELSE IF exposure_time[2] = 0
  THEN None
  ELSE <<FormatFixed(exposure_time[1], exposure_time[2], 2) \o "s">>

NoTechnicalInfo ==
  [focal_length |-> None, aperture |-> None, shutter_speed |-> None, iso |-> None]

\* _extract_technical_info(exif_dict).  ISOSpeedRatings as piexif gives it:
\* <<n>> is the int n, a longer sequence a tuple of ints, for which int()
\* raises; an int 0 is as false as a missing tag
_extract_technical_info(exif_dict) ==
  LET exif_ifd == exif_dict.Exif
      iso == exif_ifd.ISOSpeedRatings
  IN IF Len(iso) > 1
     THEN Raised("TypeError", NoTechnicalInfo)
     ELSE Returned([focal_length |-> FormatRational(exif_ifd.FocalLength, 0, "", "mm"),
                    aperture |-> FormatRational(exif_ifd.FNumber, 1, "f/", ""),
                    shutter_speed |-> ShutterSpeed(exif_ifd.ExposureTime),
                    iso |-> IF iso # <<>> /\ iso[1] # 0 THEN iso ELSE None])

\* ------------------------------------------------------------------ EXIF service
\* the record extract_metadata starts from: eleven keys, all None
NoMetadata ==
  [date_taken |-> None, gps_latitude |-> None, gps_longitude |-> None,
   camera_make |-> None, camera_model |-> None, focal_length |-> None,
   aperture |-> None, shutter_speed |-> None, iso |-> None,
   image_width |-> None, image_height |-> None]

\* a metadata dict that never receives the dimensions
SizedNothing(img) == NoMetadata

\* metadata once image_width and image_height are set from the opened image
Sized(img) ==
  [NoMetadata EXCEPT !.image_width = <<img.width>>, !.image_height = <<img.height>>]

\* Whether piexif.load raises for the EXIF bytes of the image: it does for a
\* segment it cannot parse, not for one it can; for the empty bytes of an
\* image without a segment either is possible.
LoadRaises(img) == IF img.has_exif THEN {img.exif_corrupt} ELSE BOOLEAN

\* an except clause for a file that is missing alone
ExceptFileNotFound(exc) == exc = "FileNotFoundError"

\* the `except Exception` of extract_metadata
MetadataExcept(exc) == exc # ""

\* the end of extract_metadata: an exception goes to the except clause, and
\* metadata is returned unless the clause let it through
Leave(exc, metadata) ==
  IF exc = "" \/ MetadataExcept(exc) THEN Returned(metadata) ELSE Raised(exc, metadata)

\* exif_dict = piexif.load(...) when it returns
ExifOf(img) == IF img.has_exif THEN img.exif ELSE NoExif

\* The body of the with block once the dimensions are in metadata: the load
\* and the four extractors run in the order of the code, each writes its
\* keys into metadata, and the first exception ends the block.  steps is the
\* number of extractors that returned.  An optional float or int is <<v>>.
Extracted(sized, load_raises, date_taken, gps_coords, camera_info, technical_info) ==
  LET exc == IF load_raises THEN "InvalidImageDataError"
             ELSE IF gps_coords.exc # "" THEN gps_coords.exc
             ELSE IF camera_info.exc # "" THEN camera_info.exc
             ELSE technical_info.exc
      steps == IF load_raises THEN 0
               ELSE IF gps_coords.exc # "" THEN 1
               ELSE IF camera_info.exc # "" THEN 2
               ELSE IF technical_info.exc # "" THEN 3
               ELSE 4
      has_gps == steps >= 2 /\ gps_coords.value # None
  IN Leave(exc,
       [sized EXCEPT
          !.date_taken = IF steps >= 1 THEN date_taken ELSE None,
          !.gps_latitude = IF has_gps THEN <<gps_coords.value[1]>> ELSE None,
          !.gps_longitude = IF has_gps THEN <<gps_coords.value[2]>> ELSE None,
          !.camera_make = IF steps >= 3 THEN camera_info.value.camera_make ELSE None,
          !.camera_model = IF steps >= 3 THEN camera_info.value.camera_model ELSE None,
          !.focal_length = IF steps >= 4 THEN technical_info.value.focal_length ELSE None,
          !.aperture = IF steps >= 4 THEN technical_info.value.aperture ELSE None,
          !.shutter_speed = IF steps >= 4 THEN technical_info.value.shutter_speed ELSE None,
          !.iso = IF steps >= 4 THEN technical_info.value.iso ELSE None])

\* extract_metadata(image_path)
extract_metadata(fsys, image_path, load_raises) ==
  IF image_path \notin DOMAIN fsys
  THEN Leave("FileNotFoundError", NoMetadata)
  ELSE IF ~fsys[image_path].image.ok
  THEN Leave("UnidentifiedImageError", NoMetadata)
  ELSE Extracted(Sized(fsys[image_path].image), load_raises,
                 _extract_date_taken(ExifOf(fsys[image_path].image)),
                 _extract_gps(ExifOf(fsys[image_path].image)),
                 _extract_camera_info(ExifOf(fsys[image_path].image)),
                 _extract_technical_info(ExifOf(fsys[image_path].image)))

THUMBNAIL_SIZE == <<150, 150>>
PREVIEW_SIZE == <<800, 600>>
THUMBNAIL_QUALITY == 85
PREVIEW_QUALITY == 90

Abs(i) == IF i < 0 THEN -i ELSE i

\* max(min(floor(number), ceil(number), key = key), 1) for number = p / q,
\* where the key of n is |aspect - n / along| for aspect = aw / ah (the
\* width is being fitted) or, with inverse set, 0 for n = 0 and
\* |aspect - along / n| otherwise (the height is being fitted); of two
\* equal keys min takes the floor
RoundAspect(p, q, aw, ah, along, inverse) ==
  LET lo == p \div q
      hi == IF p % q = 0 THEN lo ELSE lo + 1
      takes_lo == IF inverse
                  THEN lo = 0 \/ Abs(aw * lo - along * ah) * hi <= Abs(aw * hi - along * ah) * lo
                  ELSE Abs(aw * along - lo * ah) <= Abs(aw * along - hi * ah)
      n == IF takes_lo THEN lo ELSE hi
  IN IF n < 1 THEN 1 ELSE n

\* a resize to the box itself
ThumbnailStretch(width, height, size) == size

\* img.thumbnail(size, LANCZOS) on an image of width x height: the size of
\* the image afterwards, <<x, y>>.  An image inside the box is left alone;
\* otherwise one side is set to the box and the other follows the aspect
\* ratio width / height, kept here as an exact fraction.
Thumbnail(width, height, size) ==
  IF size[1] >= width /\ size[2] >= height
  THEN <<width, height>>
  ELSE IF size[1] * height >= width * size[2]
  THEN <<RoundAspect(size[2] * width, height, width, height, size[2], FALSE), size[2]>>
  ELSE <<size[1], RoundAspect(size[1] * height, width, width, height, size[1], TRUE)>>

\* the JPEG that generate_thumbnail / generate_preview save: the image of src
\* converted to RGB unless its mode is RGB or L, fitted into size, at quality
Derivative(src, size, quality) ==
  [name |-> "jpeg-of-" \o src.name, whole |-> TRUE,
   image |-> [ok |-> TRUE, format |-> "JPEG",
              mode |-> IF src.image.mode \in {"RGB", "L"} THEN src.image.mode ELSE "RGB",
              size |-> Thumbnail(src.image.width, src.image.height, size)],
   box |-> size, quality |-> quality]

\* what a decoder sees at image_path
ImageAt(fsys, image_path) ==
  IF image_path \in DOMAIN fsys THEN fsys[image_path].image ELSE NotAnImage

\* Whether Image.open(image_path) succeeds
CanOpen(fsys, image_path) == image_path \in DOMAIN fsys /\ fsys[image_path].image.ok

\* ------------------------------------------------------------------ initial state
NoLocals ==
  [pc |-> "idle", file |-> NoUpload, temp_path |-> None,
   exif_data |-> NoMetadata,
   file_ext |-> <<>>, photo_uuid |-> "", original_path |-> None,
   thumbnail_path |-> None, preview_path |-> None, status |-> 0,
   response |-> None]

NoHistory ==
  [stages |-> <<>>, thumb |-> "none", preview |-> "none",
   thumb_src |-> None, preview_src |-> None, staged |-> FALSE,
   write_failed |-> FALSE, written |-> {}]

\* a row of the cemeteries table that is not soft-deleted; times are whole
\* seconds since the row was created
ActiveCemetery ==
  [name |-> "Oak Hill", established_year |-> 1850, created_by |-> 1,
   created_at |-> 0, updated_at |-> 0, deleted_at |-> None]

InitPipeline ==
  /\ up = [r \in Reqs |-> NoLocals]
  /\ hist = [r \in Reqs |-> NoHistory]
  /\ fs = <<>>
  /\ writer = <<>>
  /\ dirs = {<<"tmp">>, <<"app">>, UPLOAD_DIR}
  /\ clock = [year |-> 2024, month |-> 12]
  /\ ticks = 0
  /\ images = <<>>
  /\ issued = {}
  /\ allocs = {}
  /\ photographs = {}
  /\ cemeteries = [c \in {1} |-> ActiveCemetery]

Init == InitPipeline /\ call = NoCall

\* ------------------------------------------------------------------ cemeteries
\* CemeteryService.get_by_id: the id when a row matches, None otherwise
get_by_id(db, cemetery_id, include_deleted) ==
  IF /\ cemetery_id \in DOMAIN db
     /\ (include_deleted \/ db[cemetery_id].deleted_at = None)
  THEN <<cemetery_id>> ELSE None

\* ------------------------------------------------------------------ upload_photo
Stage(h, name) == [h EXCEPT !.stages = Append(@, name)]

\* the request arrives
Receive(r) ==
  /\ up[r].pc = "idle"
  /\ \E f \in Uploads :
       up' = [up EXCEPT ![r] = [@ EXCEPT !.pc = "received", !.file = f]]
  /\ hist' = [hist EXCEPT ![r] = Stage(@, "Received")]
  /\ UNCHANGED <<fs, writer, dirs, clock, ticks, issued, allocs, photographs,
                 cemeteries, call, images>>

\* a size check that lets one byte too many through
TooLargeOffByOne(file_size) == file_size > MAX_FILE_SIZE_BYTES + 1

TooLarge(file_size) == file_size > MAX_FILE_SIZE_BYTES

\* the status the validations of upload_photo answer with, 0 when all pass
Validation(file, db) ==
  IF ~is_allowed_file_extension(file.filename) THEN 400
  ELSE IF ~is_allowed_mime_type(file.content_type) THEN 400
  ELSE IF get_by_id(db, file.cemetery_id, FALSE) = None THEN 404
  ELSE IF TooLarge(file.content.size) THEN 413
  ELSE 0

Validate(r) ==
  /\ up[r].pc = "received"
  /\ LET code == Validation(up[r].file, cemeteries)
     IN IF code # 0
        THEN /\ up' = [up EXCEPT ![r] = [@ EXCEPT !.pc = "done", !.status = code]]
             /\ hist' = [hist EXCEPT ![r] = Stage(@, "Rejected")]
        ELSE /\ up' = [up EXCEPT ![r] = [@ EXCEPT !.pc = "validated"]]
             /\ hist' = [hist EXCEPT ![r] = Stage(@, "Validated")]
  /\ UNCHANGED <<fs, writer, dirs, clock, ticks, issued, allocs, photographs,
                 cemeteries, call, images>>

\* with tempfile.NamedTemporaryFile(delete=False, ...) as temp_file: write, name.
\* Creating the file can fail (nothing is left), and so can the write (the file
\* is left with the beginning of the bytes); both raise before the try block.
StageUpload(r) ==
  /\ up[r].pc = "validated"
  /\ \E outcome \in {"ok", "create_fails", "write_fails"} :
     \E tp \in NamedTemporaryFile(fs, SplitExt(FilenameOrDefault(up[r].file.filename))) :
       IF outcome = "create_fails"
       THEN /\ up' = [up EXCEPT ![r] = [@ EXCEPT !.pc = "done", !.status = 500]]
            /\ hist' = [hist EXCEPT ![r] = Stage(@, "Failed")]
            /\ UNCHANGED <<fs, writer, images>>
       ELSE IF outcome = "write_fails"
       THEN /\ fs' = WriteFile(fs, tp, Truncated(up[r].file.content))
            /\ writer' = WriteFile(writer, tp, r)
            /\ up' = [up EXCEPT ![r] = [@ EXCEPT !.pc = "done", !.status = 500]]
            /\ hist' = [hist EXCEPT ![r] =
                 [Stage(@, "Failed") EXCEPT !.staged = TRUE, !.written = @ \cup {tp}]]
       ELSE /\ fs' = WriteFile(fs, tp, up[r].file.content)
            /\ writer' = WriteFile(writer, tp, r)
            /\ up' = [up EXCEPT ![r] = [@ EXCEPT !.pc = "staged", !.temp_path = tp]]
            /\ hist' = [hist EXCEPT ![r].staged = TRUE, ![r].written = @ \cup {tp}]
  /\ UNCHANGED <<dirs, clock, ticks, issued, allocs, photographs, cemeteries, call, images>>

\* exif_data = EXIFService.extract_metadata(temp_path); an exception it let
\* through would end the request in the handler's except and finally blocks
ExtractMetadata(r) ==
  /\ up[r].pc = "staged"
  /\ \E load_raises \in LoadRaises(ImageAt(fs, up[r].temp_path)) :
     \E exif_data \in {extract_metadata(fs, up[r].temp_path, load_raises)} :
       IF exif_data.exc = ""
       THEN /\ up' = [up EXCEPT ![r] = [@ EXCEPT !.pc = "extracted",
                                                   !.exif_data = exif_data.value]]
            /\ hist' = [hist EXCEPT ![r] = Stage(@, "MetadataExtracted")]
            /\ UNCHANGED <<fs, writer, images>>
       ELSE /\ up' = [up EXCEPT ![r] = [@ EXCEPT !.pc = "done", !.status = 500]]
            /\ hist' = [hist EXCEPT ![r] = Stage(@, "Failed")]
            /\ fs' = Finally(fs, up[r].temp_path)
            /\ writer' = [q \in DOMAIN fs' |-> writer[q]]
  /\ UNCHANGED <<dirs, clock, ticks, issued, allocs, photographs, cemeteries, call, images>>

\* a save_photo that swallows the failure of the copy
RaisesOnlyMkdir(outcome) == outcome = "mkdir_fails"

\* save_photo raises when the directory cannot be made or the copy fails
Raises(outcome) == outcome # "ok"

\* save_photo, called from save_with_thumbnails: uuid4(), _get_storage_path,
\* shutil.copy2.  A failed copy leaves nothing or the beginning of the bytes.
SavePhoto(r) ==
  /\ up[r].pc = "extracted"
  /\ \E u \in Uuid4(issued) :
     \E outcome \in {"ok", "mkdir_fails", "copy_fails", "copy_truncates"} :
       LET file_ext == Lower(SplitExt(FilenameOrDefault(up[r].file.filename)))
           dest == StoragePath(clock, u, file_ext, "")
           copied == IF outcome = "ok" THEN Copy2(fs, up[r].temp_path, dest)
                     ELSE IF outcome = "copy_truncates"
                     THEN WriteFile(fs, dest, Truncated(fs[up[r].temp_path]))
                     ELSE fs
           wrote == IF outcome \in {"ok", "copy_truncates"} THEN {dest} ELSE {}
       IN /\ outcome = "mkdir_fails" => Parent(dest) \notin dirs
          /\ issued' = issued \cup {u}
          /\ dirs' = IF outcome = "mkdir_fails" THEN dirs
                     ELSE MkdirParents(dirs, Parent(dest))
          /\ allocs' = IF outcome = "mkdir_fails" THEN allocs
                       ELSE allocs \cup
                            {[req |-> r, uuid |-> u, suffix |-> "", ext |-> file_ext,
                              now |-> clock, path |-> dest]}
          /\ IF Raises(outcome)
             THEN /\ fs' = Finally(copied, up[r].temp_path)
                  /\ up' = [up EXCEPT ![r] = [@ EXCEPT !.pc = "done", !.status = 500,
                                                 !.file_ext = file_ext]]
                  /\ hist' = [hist EXCEPT ![r] =
                       [Stage(@, "Failed") EXCEPT !.write_failed = TRUE,
                                                  !.written = @ \cup wrote]]
             ELSE /\ fs' = copied
                  /\ up' = [up EXCEPT ![r] = [@ EXCEPT !.pc = "persisted",
                                                 !.file_ext = file_ext,
                                                 !.photo_uuid = u,
                                                 !.original_path = dest]]
                  /\ hist' = [hist EXCEPT ![r] =
                       [Stage(@, "OriginalPersisted") EXCEPT
                          !.write_failed = (outcome # "ok"),
                          !.written = @ \cup wrote]]
          /\ writer' = [q \in DOMAIN fs' |-> IF q \in wrote THEN r ELSE writer[q]]
  /\ UNCHANGED <<clock, ticks, photographs, cemeteries, call, images>>

\* derivatives generated from the staging copy
DerivativeSourceStaging(locals) == locals.temp_path

\* the image path save_with_thumbnails hands to generate_thumbnail / generate_preview
DerivativeSource(locals) == locals.original_path

\* a destination reported whether or not the generator returned True
DerivativePathAlways(generated, dest) == dest

\* thumbnail_path / preview_path: the destination if the generator returned True
DerivativePath(generated, dest) == IF generated THEN dest ELSE None

\* what generate_thumbnail / generate_preview can do with the file at src:
\* Image.open raises, or the image is saved, or img.save raises (Pillow removes
\* the file it was writing); every exception is caught and answered False
GenerateOutcomes(fsys, src) ==
  IF CanOpen(fsys, src) THEN {"ok", "save_fails"}
  ELSE {"open_fails"}

\* one derivative of save_with_thumbnails: _get_storage_path(uuid, ".jpg", suffix),
\* then the generator on the original's path
GenerateDerivative(r, suffix, size, quality, outcome) ==
  LET src == DerivativeSource(up[r])
      dest == StoragePath(clock, up[r].photo_uuid, JPG, suffix)
      made == Derivative(fs[src], size, quality)
      wrote == IF outcome = "ok" THEN {dest} ELSE {}
      generated == outcome = "ok"
      isThumb == suffix = "_thumb"
  IN /\ outcome = "mkdir_fails" => Parent(dest) \notin dirs
     /\ outcome # "mkdir_fails" => outcome \in GenerateOutcomes(fs, src)
     /\ IF outcome = "mkdir_fails"
        THEN /\ fs' = Finally(fs, up[r].temp_path)
             /\ up' = [up EXCEPT ![r] = [@ EXCEPT !.pc = "done", !.status = 500]]
             /\ hist' = [hist EXCEPT ![r] = Stage(@, "Failed")]
             /\ UNCHANGED <<dirs, allocs, images>>
        ELSE /\ fs' = IF outcome = "ok" THEN WriteFile(fs, dest, made) ELSE fs
             /\ dirs' = MkdirParents(dirs, Parent(dest))
             /\ allocs' = allocs \cup
                  {[req |-> r, uuid |-> up[r].photo_uuid, suffix |-> suffix,
                    ext |-> JPG, now |-> clock, path |-> dest]}
             /\ up' = [up EXCEPT ![r] =
                  IF isThumb
                  THEN [@ EXCEPT !.pc = "thumbed",
                                 !.thumbnail_path = DerivativePath(generated, dest)]
                  ELSE [@ EXCEPT !.pc = "saved",
                                 !.preview_path = DerivativePath(generated, dest)]]
             /\ hist' = [hist EXCEPT ![r] =
                  IF isThumb
                  THEN [@ EXCEPT !.thumb = IF generated THEN "ok" ELSE "failed",
                                 !.thumb_src = src,
                                 !.written = @ \cup wrote]
                  ELSE [Stage(@, "DerivativesAttempted") EXCEPT
                                 !.preview = IF generated THEN "ok" ELSE "failed",
                                 !.preview_src = src,
                                 !.written = @ \cup wrote]]
     /\ writer' = [q \in DOMAIN fs' |-> IF q \in wrote THEN r ELSE writer[q]]
     /\ UNCHANGED <<clock, ticks, issued, photographs, cemeteries, call, images>>

DerivativeOutcomes == {"ok", "mkdir_fails", "open_fails", "save_fails"}

GenerateThumbnail(r) ==
  /\ up[r].pc = "persisted"
  /\ \E outcome \in DerivativeOutcomes :
       GenerateDerivative(r, "_thumb", THUMBNAIL_SIZE, THUMBNAIL_QUALITY, outcome)

GeneratePreview(r) ==
  /\ up[r].pc = "thumbed"
  /\ \E outcome \in DerivativeOutcomes :
       GenerateDerivative(r, "_preview", PREVIEW_SIZE, PREVIEW_QUALITY, outcome)

GPS_SRID == 4326

\* the truth value of exif_data.get(key) for a coordinate: None and 0.0 are
\* false
CoordinateIsTrue(coordinate) == coordinate # None /\ coordinate[1].num # 0

\* CemeteryService._normalize_gps: the point "SRID=4326;POINT(longitude
\* latitude)", longitude first
_normalize_gps(latitude, longitude) == [srid |-> GPS_SRID, x |-> longitude, y |-> latitude]

\* `if exif_data.get("gps_latitude") and exif_data.get("gps_longitude")`:
\* the exif_gps_location of the row
GpsLocation(exif_data) ==
  IF CoordinateIsTrue(exif_data.gps_latitude) /\ CoordinateIsTrue(exif_data.gps_longitude)
  THEN <<_normalize_gps(exif_data.gps_latitude[1], exif_data.gps_longitude[1])>>
  ELSE None

\* the Photograph row upload_photo builds from its locals; the id is
\* assigned when the row is inserted
PhotographOf(locals) ==
  [id |-> 0,
   uuid |-> locals.photo_uuid,
   cemetery_id |-> locals.file.cemetery_id,
   file_path |-> locals.original_path,
   thumbnail_path |-> locals.thumbnail_path,
   preview_path |-> locals.preview_path,
   file_size_bytes |-> locals.file.content.size,
   exif_date_taken |-> locals.exif_data.date_taken,
   exif_gps_location |-> GpsLocation(locals.exif_data),
   exif_camera_make |-> locals.exif_data.camera_make,
   exif_camera_model |-> locals.exif_data.camera_model,
   exif_focal_length |-> locals.exif_data.focal_length,
   exif_aperture |-> locals.exif_data.aperture,
   exif_shutter_speed |-> locals.exif_data.shutter_speed,
   exif_iso |-> locals.exif_data.iso,
   image_width |-> locals.exif_data.image_width,
   image_height |-> locals.exif_data.image_height,
   deleted_at |-> None]

\* db.add and db.commit: the row with the next id of the table
Inserted(table, row) == [row EXCEPT !.id = Cardinality(table) + 1]

\* Photograph.has_exif
has_exif(photograph) ==
  \/ photograph.exif_date_taken # None
  \/ photograph.exif_gps_location # None
  \/ photograph.exif_camera_make # None
  \/ photograph.exif_camera_model # None

\* CemeteryService.extract_gps_coordinates
extract_gps_coordinates(geography) ==
  IF geography = None THEN None
  ELSE <<[latitude |-> geography[1].y, longitude |-> geography[1].x]>>

\* the response of upload_photo and get_photo for a row: exif_metadata is
\* set under `if photograph.has_exif`
ResponseOf(photograph) ==
  [id |-> photograph.id,
   exif_metadata |->
     IF has_exif(photograph)
     THEN <<[date_taken |-> photograph.exif_date_taken,
             camera_make |-> photograph.exif_camera_make,
             camera_model |-> photograph.exif_camera_model,
             focal_length |-> photograph.exif_focal_length,
             aperture |-> photograph.exif_aperture,
             shutter_speed |-> photograph.exif_shutter_speed,
             iso |-> photograph.exif_iso,
             image_width |-> photograph.image_width,
             image_height |-> photograph.image_height,
             gps_location |-> extract_gps_coordinates(photograph.exif_gps_location)]>>
     ELSE None]

\* db.add / db.commit / the response, then the finally block
Commit(r) ==
  /\ up[r].pc = "saved"
  /\ \E outcome \in {"ok", "commit_fails"} :
       IF outcome = "ok"
       THEN \E photograph \in {Inserted(photographs, PhotographOf(up[r]))} :
            /\ photographs' = photographs \cup {photograph}
            /\ up' = [up EXCEPT ![r] = [@ EXCEPT !.pc = "done", !.status = 201,
                                                 !.response = <<ResponseOf(photograph)>>]]
            /\ hist' = [hist EXCEPT ![r] = Stage(@, "Complete")]
       ELSE /\ photographs' = photographs
            /\ up' = [up EXCEPT ![r] = [@ EXCEPT !.pc = "done", !.status = 500]]
            /\ hist' = [hist EXCEPT ![r] = Stage(@, "Failed")]
  /\ fs' = Finally(fs, up[r].temp_path)
  /\ writer' = [q \in DOMAIN fs' |-> writer[q]]
  /\ UNCHANGED <<dirs, clock, ticks, issued, allocs, cemeteries, call, images>>

\* the UTC clock passes into the next month
Tick ==
  /\ ticks < MaxTicks
  /\ ticks' = ticks + 1
  /\ clock' = IF clock.month = 12 THEN [year |-> clock.year + 1, month |-> 1]
              ELSE [clock EXCEPT !.month = @ + 1]
  /\ UNCHANGED <<up, hist, fs, writer, dirs, issued, allocs, photographs,
                 cemeteries, call, images>>

Next ==
  \/ \E r \in Reqs : Receive(r)
  \/ \E r \in Reqs : Validate(r)
  \/ \E r \in Reqs : StageUpload(r)
  \/ \E r \in Reqs : ExtractMetadata(r)
  \/ \E r \in Reqs : SavePhoto(r)
  \/ \E r \in Reqs : GenerateThumbnail(r)
  \/ \E r \in Reqs : GeneratePreview(r)
  \/ \E r \in Reqs : Commit(r)
  \/ Tick

Spec == Init /\ [][Next]_vars

\* ------------------------------------------------------------------ the EXIF service alone
\* The functions of EXIFService called on their own arguments.
MaxDenominator == 2

\* numerators below and above the ends of the latitude and longitude ranges
Numerators == {0, 30, 91, 181}
Rationals == {<<n, d>> : n \in Numerators, d \in 0..MaxDenominator}

GoodLatitude == <<<<40, 1>>, <<42, 1>>, <<46, 1>>>>
GoodLongitude == <<<<74, 1>>, <<0, 1>>, <<21, 1>>>>

DmsTriples ==
  {<<a, b, c>> : a \in Rationals, b \in Rationals, c \in Rationals}
    \cup {GoodLatitude, GoodLongitude}

HemisphereRefs ==
  {<<"N">>, <<"S">>, <<"E">>, <<"W">>, <<"n">>, <<"s">>, <<"e">>, <<"w">>, <<BadByte>>}

\* the values of a GPS coordinate tag and of a reference tag in a file
GpsDmsValues ==
  { <<>>, GoodLatitude, GoodLongitude,
    <<<<0, 1>>, <<0, 1>>, <<0, 1>>>>,
    <<<<181, 1>>, <<30, 1>>, <<0, 1>>>>,
    <<<<40, 0>>, <<42, 1>>, <<46, 1>>>>,
    <<<<40, 1>>, <<42, 1>>, <<46, 0>>>> }

GpsRefValues == {<<>>, <<"N">>, <<"S">>, <<"E">>, <<"W">>, <<"s">>}

GpsIfds ==
  { [GPSLatitude |-> a, GPSLatitudeRef |-> b, GPSLongitude |-> c, GPSLongitudeRef |-> d] :
      a \in GpsDmsValues, b \in GpsRefValues, c \in GpsDmsValues, d \in GpsRefValues }

\* the tags of a well-formed file
GoodExif ==
  [Exif |-> [DateTimeOriginal |-> <<"2","0","2","4",":","0","1",":","1","5"," ","1","4",":","3","0",":","0","0">>,
             DateTimeDigitized |-> <<>>,
             FocalLength |-> <<50, 1>>, FNumber |-> <<28, 10>>,
             ExposureTime |-> <<3, 4>>, ISOSpeedRatings |-> <<100>>],
   Zeroth |-> [DateTime |-> <<>>, Make |-> <<"C","a","n","o","n">>,
               Model |-> <<"E","O","S">>],
   GPS |-> [GPSLatitude |-> GoodLatitude, GPSLatitudeRef |-> <<"N">>,
            GPSLongitude |-> GoodLongitude, GPSLongitudeRef |-> <<"W">>]]

\* the values each tag takes: missing, well-formed, malformed
MakeValues == {<<>>, <<"C","a","n","o","n">>, <<"C", BadByte>>}
ModelValues == {<<>>, <<"E","O","S">>, <<BadByte, "S">>}
FocalLengthValues == {<<>>, <<50, 1>>, <<50, 0>>}
FNumberValues == {<<>>, <<28, 10>>, <<28, 0>>}
ExposureTimeValues == {<<>>, <<1, 250>>, <<1, 0>>, <<3, 4>>, <<3, 0>>}
IsoValues == {<<>>, <<100>>, <<0>>, <<100, 200>>}
OriginalValues ==
  { <<>>, GoodExif.Exif.DateTimeOriginal,
    <<"2","0","2","4","-","0","1","-","1","5"," ","1","4",":","3","0",":","0","0">> }
GpsSamples ==
  { GoodExif.GPS, [GoodExif.GPS EXCEPT !.GPSLongitude = <<<<74, 1>>, <<0, 0>>, <<21, 1>>>>] }

TagExifs ==
  { [Exif |-> [DateTimeOriginal |-> o, DateTimeDigitized |-> <<>>,
               FocalLength |-> fl, FNumber |-> fn,
               ExposureTime |-> et, ISOSpeedRatings |-> iso],
     Zeroth |-> [DateTime |-> <<>>, Make |-> mk, Model |-> md],
     GPS |-> g] :
      o \in OriginalValues, fl \in FocalLengthValues, fn \in FNumberValues,
      et \in ExposureTimeValues, iso \in IsoValues, mk \in MakeValues,
      md \in ModelValues, g \in GpsSamples }

GpsExifs == {[GoodExif EXCEPT !.GPS = g] : g \in GpsIfds}

ImageWith(exif_dict) == [JpegImage EXCEPT !.exif = exif_dict]

\* the files extract_metadata is given: none at the path, bytes that are no
\* image, an image without EXIF, one with a segment piexif cannot parse, and
\* images with every combination of the tag values above
MetadataInputs ==
  {[exists |-> FALSE, image |-> NotAnImage, load_raises |-> FALSE]}
    \cup {[exists |-> TRUE, image |-> NotAnImage, load_raises |-> FALSE]}
    \cup {[exists |-> TRUE, image |-> PngImage, load_raises |-> b] : b \in LoadRaises(PngImage)}
    \cup {[exists |-> TRUE, image |-> [JpegImage EXCEPT !.exif_corrupt = TRUE],
           load_raises |-> TRUE]}
    \cup {[exists |-> TRUE, image |-> ImageWith(e), load_raises |-> FALSE] :
            e \in TagExifs \cup GpsExifs}

\* exposure times n/d for all small n and d, zero included
MaxExposure == 12
ExposureTimes == {<<n, d>> : n \in 0..MaxExposure, d \in 0..MaxExposure}

ExifCalls ==
  {[op |-> "_dms_to_decimal", arg |-> [dms |-> t, ref |-> h]] :
     t \in DmsTriples, h \in HemisphereRefs}
    \cup {[op |-> "_extract_gps", arg |-> [NoExif EXCEPT !.GPS = g]] : g \in GpsIfds}
    \cup {[op |-> "extract_metadata", arg |-> m] : m \in MetadataInputs}
    \cup {[op |-> "_extract_technical_info",
           arg |-> [NoExif EXCEPT !.Exif.ExposureTime = et]] : et \in ExposureTimes}

InitExif ==
  /\ InitPipeline
  /\ \E c \in ExifCalls :
       call = [op |-> c.op, arg |-> c.arg, done |-> FALSE, result |-> None]

CallDmsToDecimal ==
  /\ call.op = "_dms_to_decimal"
  /\ ~call.done
  /\ call' = [call EXCEPT !.done = TRUE,
                          !.result = _dms_to_decimal(call.arg.dms, call.arg.ref)]
  /\ UNCHANGED <<up, hist, fs, writer, dirs, clock, ticks, issued, allocs,
                 photographs, cemeteries, images>>

CallExtractGps ==
  /\ call.op = "_extract_gps"
  /\ ~call.done
  /\ call' = [call EXCEPT !.done = TRUE, !.result = _extract_gps(call.arg)]
  /\ UNCHANGED <<up, hist, fs, writer, dirs, clock, ticks, issued, allocs,
                 photographs, cemeteries, images>>

\* extract_metadata on a filesystem that holds the file, or nothing, at the path
CallExtractMetadata ==
  /\ call.op = "extract_metadata"
  /\ ~call.done
  /\ LET image_path == <<"tmp", "photo.jpg">>
         bytes == [name |-> "photo", size |-> 1, whole |-> TRUE, image |-> call.arg.image]
         fsys == IF call.arg.exists THEN WriteFile(<<>>, image_path, bytes) ELSE <<>>
     IN call' = [call EXCEPT !.done = TRUE,
                   !.result = extract_metadata(fsys, image_path, call.arg.load_raises)]
  /\ UNCHANGED <<up, hist, fs, writer, dirs, clock, ticks, issued, allocs,
                 photographs, cemeteries, images>>

CallExtractTechnicalInfo ==
  /\ call.op = "_extract_technical_info"
  /\ ~call.done
  /\ call' = [call EXCEPT !.done = TRUE, !.result = _extract_technical_info(call.arg)]
  /\ UNCHANGED <<up, hist, fs, writer, dirs, clock, ticks, issued, allocs,
                 photographs, cemeteries, images>>

NextExif ==
  CallDmsToDecimal \/ CallExtractGps \/ CallExtractMetadata \/ CallExtractTechnicalInfo

SpecExif == InitExif /\ [][NextExif]_vars

\* ------------------------------------------------------------------ the generators alone
\* generate_thumbnail and generate_preview on source images of every size
\* around the edges of the two boxes.
MaxSide == 3
Sides == (1..MaxSide) \cup {149, 150, 151, 300, 599, 600, 601, 799, 800, 801, 1600, 4000}

SourceOfSize(w, h) ==
  [name |-> "source", size |-> 1, whole |-> TRUE,
   image |-> [JpegImage EXCEPT !.width = w, !.height = h]]

GeneratorCalls ==
  {[op |-> g, arg |-> SourceOfSize(w, h)] :
     g \in {"generate_thumbnail", "generate_preview"}, w \in Sides, h \in Sides}

InitGenerate ==
  /\ InitPipeline
  /\ \E c \in GeneratorCalls :
       call = [op |-> c.op, arg |-> c.arg, done |-> FALSE, result |-> None]

CallGenerateThumbnail ==
  /\ call.op = "generate_thumbnail"
  /\ ~call.done
  /\ call' = [call EXCEPT !.done = TRUE,
                !.result = Derivative(call.arg, THUMBNAIL_SIZE, THUMBNAIL_QUALITY)]
  /\ UNCHANGED <<up, hist, fs, writer, dirs, clock, ticks, issued, allocs,
                 photographs, cemeteries, images>>

CallGeneratePreview ==
  /\ call.op = "generate_preview"
  /\ ~call.done
  /\ call' = [call EXCEPT !.done = TRUE,
                !.result = Derivative(call.arg, PREVIEW_SIZE, PREVIEW_QUALITY)]
  /\ UNCHANGED <<up, hist, fs, writer, dirs, clock, ticks, issued, allocs,
                 photographs, cemeteries, images>>

NextGenerate == CallGenerateThumbnail \/ CallGeneratePreview

SpecGenerate == InitGenerate /\ [][NextGenerate]_vars

\* ------------------------------------------------------------------ deletion alone
\* delete_photo_with_thumbnails, called up to MaxCalls times on the same
\* paths, on a storage directory holding any of the three files.
MaxCalls == 2

\* an except clause for a missing file only
ExceptMissingFile(exc) == exc = "FileNotFoundError"

\* `except Exception` of delete_photo
DeleteExcept(exc) == exc # ""

\* delete_photo(file_path): [exc, value, fs, raised]; unlink_raises is
\* whether path.unlink() raises (PermissionError, say) if it is reached.
\* A path in fsys exists and is a file; a directory is not in fsys.
delete_photo(fsys, file_path, unlink_raises) ==
  IF file_path \in DOMAIN fsys
  THEN IF unlink_raises
       THEN [exc |-> IF DeleteExcept("PermissionError") THEN "" ELSE "PermissionError",
             value |-> FALSE, fs |-> fsys, raised |-> {file_path}]
       ELSE [exc |-> "", value |-> TRUE, fs |-> RemoveFile(fsys, file_path), raised |-> {}]
  ELSE [exc |-> "", value |-> FALSE, fs |-> fsys, raised |-> {}]

\* `if thumbnail_path:` / `if preview_path:` around a delete_photo call
IfPath(fsys, path, unlink_raises) ==
  IF path # None /\ path # <<"">>
  THEN delete_photo(fsys, path, unlink_raises)
  ELSE [exc |-> "", value |-> TRUE, fs |-> fsys, raised |-> {}]

\* the three steps of delete_photo_with_thumbnails put together: the record
\* of one call, with the files before and after, the paths delete_photo was
\* called on and the paths whose unlink raised
Deleted(before, d1, d2, d3, paths) ==
  [exc |-> IF d1.exc # "" THEN d1.exc ELSE IF d2.exc # "" THEN d2.exc ELSE d3.exc,
   value |-> d1.value /\ d2.value /\ d3.value,
   before |-> DOMAIN before,
   after |-> DOMAIN (IF d1.exc # "" THEN d1.fs ELSE IF d2.exc # "" THEN d2.fs ELSE d3.fs),
   tried |-> IF d1.exc # "" THEN {paths[1]}
             ELSE IF d2.exc # "" THEN {paths[1]} \cup ({paths[2]} \ {None})
             ELSE {paths[1]} \cup ({paths[2], paths[3]} \ {None}),
   raised |-> d1.raised \cup d2.raised \cup d3.raised]

DeletionPaths ==
  [original |-> StoragePath([year |-> 2024, month |-> 12], Uuid(1), JPG, ""),
   thumbnail |-> StoragePath([year |-> 2024, month |-> 12], Uuid(1), JPG, "_thumb"),
   preview |-> StoragePath([year |-> 2024, month |-> 12], Uuid(1), JPG, "_preview")]

StoredFile == [name |-> "a.jpg", size |-> 1, whole |-> TRUE, image |-> JpegImage]

\* the arguments: the original or a directory in its place, and each of the
\* other two paths or None
DeletionArgs ==
  {<<o, t, p>> : o \in {DeletionPaths.original, UPLOAD_DIR},
                 t \in {None, DeletionPaths.thumbnail},
                 p \in {None, DeletionPaths.preview}}

InitDelete ==
  /\ up = [r \in Reqs |-> NoLocals]
  /\ hist = [r \in Reqs |-> NoHistory]
  /\ writer = <<>>
  /\ dirs = MkdirParents({<<"tmp">>}, Parent(DeletionPaths.original))
  /\ clock = [year |-> 2024, month |-> 12]
  /\ ticks = 0
  /\ images = <<>>
  /\ issued = {}
  /\ allocs = {}
  /\ photographs = {}
  /\ cemeteries = [c \in {1} |-> ActiveCemetery]
  /\ \E present \in SUBSET {DeletionPaths.original, DeletionPaths.thumbnail,
                            DeletionPaths.preview} :
       fs = [q \in present |-> StoredFile]
  /\ \E paths \in DeletionArgs :
       call = [op |-> "delete_photo_with_thumbnails", arg |-> paths,
               done |-> FALSE, result |-> <<>>]

\* one call of delete_photo_with_thumbnails(original_path, thumbnail_path,
\* preview_path); call.result is the list of the calls made so far
CallDeletePhotoWithThumbnails ==
  /\ call.op = "delete_photo_with_thumbnails"
  /\ Len(call.result) < MaxCalls
  /\ \E u1 \in BOOLEAN, u2 \in BOOLEAN, u3 \in BOOLEAN :
       \E d1 \in {delete_photo(fs, call.arg[1], u1)} :
         \E d2 \in {IfPath(d1.fs, call.arg[2], u2)} :
           \E d3 \in {IfPath(d2.fs, call.arg[3], u3)} :
             \E d \in {Deleted(fs, d1, d2, d3, call.arg)} :
               /\ fs' = [q \in d.after |-> fs[q]]
               /\ call' = [call EXCEPT !.done = TRUE, !.result = Append(@, d)]
  /\ UNCHANGED <<up, hist, writer, dirs, clock, ticks, issued, allocs,
                 photographs, cemeteries, images>>

NextDelete == CallDeletePhotoWithThumbnails

SpecDelete == InitDelete /\ [][NextDelete]_vars

\* ------------------------------------------------------------------ cemeteries alone
\* CemeteryService.delete and CemeteryService.restore, called in any order
\* on the ids of two rows and of no row, while the clock runs to MaxClock.
MaxClock == 3
CemeteryIds == {1, 2, 3}

\* the trigger update_cemeteries_updated_at, BEFORE UPDATE ON cemeteries
UpdatedAtTrigger(row, now) == [row EXCEPT !.updated_at = now]

\* Cemetery.is_deleted
is_deleted(row) == row.deleted_at # None

\* CemeteryService.delete at time now: [value, db]
delete(db, cemetery_id, now) ==
  IF get_by_id(db, cemetery_id, FALSE) = None
  THEN [value |-> FALSE, db |-> db]
  ELSE [value |-> TRUE,
        db |-> [db EXCEPT ![cemetery_id] =
                  UpdatedAtTrigger([@ EXCEPT !.deleted_at = <<now>>], now)]]

\* a restore that does not ask whether the row is deleted
restore_any(db, cemetery_id, now) ==
  IF get_by_id(db, cemetery_id, TRUE) = None
  THEN [value |-> FALSE, db |-> db]
  ELSE [value |-> TRUE,
        db |-> [db EXCEPT ![cemetery_id] =
                  IF @.deleted_at = None THEN @
                  ELSE UpdatedAtTrigger([@ EXCEPT !.deleted_at = None], now)]]

\* CemeteryService.restore at time now: [value, db]
restore(db, cemetery_id, now) ==
  IF get_by_id(db, cemetery_id, TRUE) = None \/ ~is_deleted(db[cemetery_id])
  THEN [value |-> FALSE, db |-> db]
  ELSE [value |-> TRUE,
        db |-> [db EXCEPT ![cemetery_id] =
                  UpdatedAtTrigger([@ EXCEPT !.deleted_at = None], now)]]

InitCemetery ==
  /\ up = [r \in Reqs |-> NoLocals]
  /\ hist = [r \in Reqs |-> NoHistory]
  /\ fs = <<>>
  /\ writer = <<>>
  /\ dirs = {<<"tmp">>, <<"app">>, UPLOAD_DIR}
  /\ clock = [year |-> 2024, month |-> 12]
  /\ ticks = 0
  /\ images = <<>>
  /\ issued = {}
  /\ allocs = {}
  /\ photographs = {}
  /\ cemeteries = [c \in {1, 2} |->
                     [ActiveCemetery EXCEPT !.name = IF c = 1 THEN "Oak Hill" ELSE "Elm Grove"]]
  /\ call = NoCall

\* one call of delete; the clock (ticks, in seconds) may have moved on since
\* the call before
CallDelete(cemetery_id) ==
  /\ ticks < MaxClock
  /\ \E now \in {ticks, ticks + 1} :
       \E d \in {delete(cemeteries, cemetery_id, now)} :
         /\ cemeteries' = d.db
         /\ ticks' = now
         /\ call' = [op |-> "delete", arg |-> cemetery_id, done |-> TRUE,
                     result |-> [value |-> d.value, before |-> cemeteries]]
  /\ UNCHANGED <<up, hist, fs, writer, dirs, clock, issued, allocs, photographs, images>>

CallRestore(cemetery_id) ==
  /\ ticks < MaxClock
  /\ \E now \in {ticks, ticks + 1} :
       \E d \in {restore(cemeteries, cemetery_id, now)} :
         /\ cemeteries' = d.db
         /\ ticks' = now
         /\ call' = [op |-> "restore", arg |-> cemetery_id, done |-> TRUE,
                     result |-> [value |-> d.value, before |-> cemeteries]]
  /\ UNCHANGED <<up, hist, fs, writer, dirs, clock, issued, allocs, photographs, images>>

NextCemetery == \E cemetery_id \in CemeteryIds : CallDelete(cemetery_id) \/ CallRestore(cemetery_id)

SpecCemetery == InitCemetery /\ [][NextCemetery]_vars

\* ------------------------------------------------------------------ get_photo alone
\* get_photo on a table of one row, for every combination of the eight
\* EXIF-derived columns set or NULL, the row soft-deleted or not.
MaxPhotoId == 2

StoredRow ==
  [id |-> 1, uuid |-> Uuid(1), cemetery_id |-> 1,
   file_path |-> DeletionPaths.original,
   thumbnail_path |-> DeletionPaths.thumbnail,
   preview_path |-> DeletionPaths.preview,
   file_size_bytes |-> JpegBytes.size,
   exif_date_taken |-> None, exif_gps_location |-> None,
   exif_camera_make |-> None, exif_camera_model |-> None,
   exif_focal_length |-> None, exif_aperture |-> None,
   exif_shutter_speed |-> None, exif_iso |-> None,
   image_width |-> <<3000>>, image_height |-> <<2000>>, deleted_at |-> None]

\* the rows upload_photo inserts for the uploads whose images hold any of
\* the tags with the values of JpegImage
PhotoRows ==
  {[StoredRow EXCEPT
      !.exif_date_taken = date_taken, !.exif_gps_location = gps,
      !.exif_camera_make = make, !.exif_camera_model = model,
      !.exif_focal_length = focal_length, !.exif_aperture = aperture,
      !.exif_shutter_speed = shutter_speed, !.exif_iso = iso,
      !.deleted_at = deleted_at] :
     date_taken \in {None, <<2024, 1, 15, 14, 30, 0>>},
     gps \in {None, <<_normalize_gps(Frac(146566, 3600), Frac(-266421, 3600))>>},
     make \in {None, JpegImage.exif.Zeroth.Make},
     model \in {None, JpegImage.exif.Zeroth.Model},
     focal_length \in {None, <<"50mm">>},
     aperture \in {None, <<"f/2.8">>},
     shutter_speed \in {None, <<"1/250">>},
     iso \in {None, <<100>>},
     deleted_at \in {None, <<1>>}}

InitGetPhoto ==
  /\ up = [r \in Reqs |-> NoLocals]
  /\ hist = [r \in Reqs |-> NoHistory]
  /\ fs = <<>>
  /\ writer = <<>>
  /\ dirs = {<<"tmp">>, <<"app">>, UPLOAD_DIR}
  /\ clock = [year |-> 2024, month |-> 12]
  /\ ticks = 0
  /\ images = <<>>
  /\ issued = {}
  /\ allocs = {}
  /\ cemeteries = [c \in {1} |-> ActiveCemetery]
  /\ \E row \in PhotoRows : photographs = {row}
  /\ \E photo_id \in 1..MaxPhotoId :
       call = [op |-> "get_photo", arg |-> photo_id, done |-> FALSE, result |-> None]

\* get_photo(photo_id): 404 unless a row with this id is not soft-deleted
get_photo(table, photo_id) ==
  LET found == {ph \in table : ph.id = photo_id /\ ph.deleted_at = None}
  IN IF found = {} THEN [status |-> 404, response |-> None]
     ELSE [status |-> 200, response |-> <<ResponseOf(CHOOSE ph \in found : TRUE)>>]

CallGetPhoto ==
  /\ call.op = "get_photo"
  /\ ~call.done
  /\ call' = [call EXCEPT !.done = TRUE, !.result = get_photo(photographs, call.arg)]
  /\ UNCHANGED <<up, hist, fs, writer, dirs, clock, ticks, issued, allocs,
                 photographs, cemeteries, images>>

NextGetPhoto == CallGetPhoto

SpecGetPhoto == InitGetPhoto /\ [][NextGetPhoto]_vars

\* ------------------------------------------------------------------ the tagging application
\* The Flask application of src/stonekeeper: its upload route and the
\* helpers it calls.  Texts are sequences of characters.
UPLOAD_FOLDER == "uploads"
AllowedImageExtensions == {"png", "jpg", "jpeg", "gif"}

\* allowed_file(filename)
allowed_file(filename) ==
  /\ RFind(filename, ".") > 0
  /\ Join(Lower(SubSeq(filename, RFind(filename, ".") + 1, Len(filename))))
       \in AllowedImageExtensions

LowerLetters ==
  {"a", "b", "c", "d", "e", "f", "g", "h", "i", "j", "k", "l", "m",
   "n", "o", "p", "q", "r", "s", "t", "u", "v", "w", "x", "y", "z"}

\* the characters werkzeug's secure_filename keeps: [A-Za-z0-9_.-]
IsFilenameAscii(c) ==
  LowerChar(c) \in LowerLetters \/ DigitValue(c) >= 0 \/ c \in {"_", ".", "-"}

\* "_".join(text.split()): the words of the text, joined by "_"
JoinWords(cs) ==
  LET word(i) == ~IsSpace(cs[i])
      F[i \in 0..Len(cs)] ==
        IF i = 0 THEN <<>>
        ELSE IF word(i) THEN Append(F[i - 1], cs[i])
        ELSE IF i > 1 /\ word(i - 1) /\ \E j \in (i + 1)..Len(cs) : word(j)
        THEN Append(F[i - 1], "_")
        ELSE F[i - 1]
  IN F[Len(cs)]

\* text.strip(chars)
StripChars(cs, chars) ==
  LET inner == {i \in 1..Len(cs) : cs[i] \notin chars}
  IN IF inner = {} THEN <<>>
     ELSE SubSeq(cs, CHOOSE i \in inner : \A j \in inner : i <= j,
                     CHOOSE i \in inner : \A j \in inner : j <= i)

\* werkzeug.utils.secure_filename on ASCII text: path separators become
\* blanks, blanks "_", every other character outside [A-Za-z0-9_.-] is
\* dropped, and dots and underscores are stripped from both ends
secure_filename(filename) ==
  StripChars(
    SelectSeq(JoinWords([i \in 1..Len(filename) |->
                           IF filename[i] = "/" THEN " " ELSE filename[i]]),
              IsFilenameAscii),
    {".", "_"})

\* int(datetime.now().timestamp()) when the clock is `seconds` past the start
Epoch == 1701616200
Timestamp(seconds) == Epoch + seconds

\* generate_unique_filename(filename) at that time
generate_unique_filename(filename, seconds) ==
  DecStr(Timestamp(seconds)) \o "_" \o Join(secure_filename(filename))

\* text.split(sep)
RECURSIVE Split(_, _)
Split(cs, sep) ==
  LET hits == {i \in 1..Len(cs) : cs[i] = sep}
  IN IF hits = {} THEN <<cs>>
     ELSE LET i == CHOOSE h \in hits : \A j \in hits : h <= j
          IN <<SubSeq(cs, 1, i - 1)>> \o Split(SubSeq(cs, i + 1, Len(cs)), sep)

\* text.strip()
Strip(cs) == StripChars(cs, {" ", "\t", "\n"})

\* sep.join(parts)
RECURSIVE JoinWith(_, _)
JoinWith(parts, sep) ==
  IF parts = <<>> THEN <<>>
  ELSE IF Len(parts) = 1 THEN parts[1]
  ELSE parts[1] \o <<sep>> \o JoinWith(Tail(parts), sep)


\* the loop without the test for a tag seen before
AllTags(tags) == SelectSeq(tags, LAMBDA tag : tag # <<>>)

\* the loop of normalize_tags: the tags that are not empty, each once, in the
\* order in which they first occur
UniqueTags(tags) ==
  LET F[i \in 0..Len(tags)] ==
        IF i = 0 THEN <<>>
        ELSE IF tags[i] # <<>> /\ \A k \in 1..Len(F[i - 1]) : F[i - 1][k] # tags[i]
        THEN Append(F[i - 1], tags[i])
        ELSE F[i - 1]
  IN F[Len(tags)]

\* normalize_tags(tags_input)
normalize_tags(tags_input) ==
  IF tags_input = <<>> \/ Strip(tags_input) = <<>> THEN <<>>
  ELSE LET parts == Split(tags_input, ",")
       IN JoinWith(UniqueTags([i \in 1..Len(parts) |-> Lower(Strip(parts[i]))]), ",")

\* save_image(filename, filepath, tags) at that time: the images table with
\* the new row
save_image(table, filename, filepath, tags, seconds) ==
  Append(table, [id |-> Len(table) + 1, filename |-> filename, filepath |-> filepath,
                 upload_date |-> Timestamp(seconds), tags |-> normalize_tags(tags)])

\* the POST requests of the model: the file part (has_file), its name and
\* bytes, and the tags field
MaxUploads == 2
MaxSeconds == 1
UploadForms ==
  {[has_file |-> h, filename |-> f, content |-> c, tags |-> t] :
     h \in BOOLEAN,
     f \in {<<>>, <<"n","o","t","e","s",".","t","x","t">>, <<"g","r","a","v","e",".","j","p","g">>, <<"m","y"," ","p","h","o","t","o",".","J","P","G">>, <<"m","y","_","p","h","o","t","o",".","J","P","G">>},
     c \in {"bytes-1", "bytes-2"},
     t \in {<<>>, <<"S","m","i","t","h",","," ","G","r","a","v","e",","," ","s","m","i","t","h">>}}

InitFlask ==
  /\ InitPipeline
  /\ call = NoCall

\* upload(), POST: the three validations, file.save and save_image
Upload(form) ==
  /\ Len(images) < MaxUploads
  /\ IF ~form.has_file \/ form.filename = <<>>
     THEN /\ call' = [op |-> "upload", arg |-> form, done |-> TRUE,
                      result |-> <<"No file selected">>]
          /\ UNCHANGED <<fs, images>>
     ELSE IF ~allowed_file(form.filename)
     THEN /\ call' = [op |-> "upload", arg |-> form, done |-> TRUE,
                      result |-> <<"Invalid file type. Allowed: PNG, JPG, JPEG, GIF">>]
          /\ UNCHANGED <<fs, images>>
     ELSE \E filepath \in {<<UPLOAD_FOLDER, generate_unique_filename(form.filename, ticks)>>} :
          /\ fs' = WriteFile(fs, filepath, form.content)
          /\ images' = save_image(images, form.filename, filepath, form.tags, ticks)
          /\ call' = [op |-> "upload", arg |-> form, done |-> TRUE,
                      result |-> <<"Image uploaded successfully!">>]
  /\ UNCHANGED <<up, hist, writer, dirs, clock, ticks, issued, allocs,
                 photographs, cemeteries>>

\* a second passes on the clock of datetime.now()
SecondPasses ==
  /\ ticks < MaxSeconds
  /\ ticks' = ticks + 1
  /\ UNCHANGED <<up, hist, fs, writer, dirs, clock, issued, allocs,
                 photographs, cemeteries, call, images>>

NextFlask == (\E form \in UploadForms : Upload(form)) \/ SecondPasses

SpecFlask == InitFlask /\ [][NextFlask]_vars

\* ------------------------------------------------------------------ normalize_tags alone
\* normalize_tags on every text of up to MaxTagsLen characters of TagChars
MaxTagsLen == 5
TagChars == {"a", "A", "b", " ", ","}
TagTexts == UNION {[1..n -> TagChars] : n \in 0..MaxTagsLen}

InitTags ==
  /\ InitPipeline
  /\ \E tags_input \in TagTexts :
       call = [op |-> "normalize_tags", arg |-> tags_input, done |-> FALSE, result |-> <<>>]

CallNormalizeTags ==
  /\ call.op = "normalize_tags"
  /\ ~call.done
  /\ call' = [call EXCEPT !.done = TRUE, !.result = normalize_tags(call.arg)]
  /\ UNCHANGED <<up, hist, fs, writer, dirs, clock, ticks, issued, allocs,
                 photographs, cemeteries, images>>

NextTags == CallNormalizeTags

SpecTags == InitTags /\ [][NextTags]_vars

\* ------------------------------------------------------------------ _extract_date_taken alone
\* The values a date tag takes: missing, three well-formed dates, a date in
\* another layout, a day that does not exist, and bytes that are no UTF-8.
WellFormedDates ==
  { <<"2","0","2","4",":","0","1",":","1","5"," ","1","4",":","3","0",":","0","0">>,
    <<"2","0","2","3",":","1","2",":","3","1"," ","2","3",":","5","9",":","5","9">>,
    <<"2","0","2","0",":","0","2",":","2","9"," ","0","0",":","0","0",":","0","0">> }

MalformedDates ==
  { <<"2","0","2","4","-","0","1","-","1","5"," ","1","4",":","3","0",":","0","0">>,
    <<"2","0","2","3",":","0","2",":","3","0"," ","1","0",":","0","0",":","0","0">>,
    <<"2","0","2","4",BadByte>> }

DateTagValues == {<<>>} \cup WellFormedDates \cup MalformedDates

ExifDicts ==
  { [Exif |-> [DateTimeOriginal |-> a, DateTimeDigitized |-> b], Zeroth |-> [DateTime |-> c]] :
      a \in DateTagValues, b \in DateTagValues, c \in DateTagValues }

InitDate ==
  /\ InitPipeline
  /\ call \in {[op |-> "_extract_date_taken", arg |-> e, done |-> FALSE, result |-> None] :
                 e \in ExifDicts}

CallExtractDate ==
  /\ call.op = "_extract_date_taken"
  /\ ~call.done
  /\ call' = [call EXCEPT !.done = TRUE, !.result = _extract_date_taken(call.arg)]
  /\ UNCHANGED <<up, hist, fs, writer, dirs, clock, ticks, issued, allocs,
                 photographs, cemeteries, images>>

NextDate == CallExtractDate

SpecDate == InitDate /\ [][NextDate]_vars

\* ================================================================== claims
Done(r) == up[r].pc = "done"
Has(seq, x) == \E i \in 1..Len(seq) : seq[i] = x
IsPrefix(a, b) == Len(a) <= Len(b) /\ SubSeq(b, 1, Len(a)) = a
InStorage(p) == Len(p) > Len(UPLOAD_DIR) /\ SubSeq(p, 1, Len(UPLOAD_DIR)) = UPLOAD_DIR
InTmp(p) == Len(p) > 1 /\ p[1] = "tmp"

\* the request did no decoding work and wrote nothing
NothingDone(r) ==
  /\ ~hist[r].staged
  /\ hist[r].written = {}
  /\ ~Has(hist[r].stages, "MetadataExtracted")
  /\ hist[r].thumb = "none" /\ hist[r].preview = "none"
  /\ \A p \in DOMAIN writer : writer[p] # r
  /\ \A a \in allocs : a.req # r

PassesEarlierChecks(file) ==
  /\ is_allowed_file_extension(file.filename)
  /\ is_allowed_mime_type(file.content_type)
  /\ file.cemetery_id \in DOMAIN cemeteries
  /\ cemeteries[file.cemetery_id].deleted_at = None

\* C1 as stated: every upload longer than MAX_FILE_SIZE_BYTES is answered 413,
\* before any extraction or decoding, and writes no file.
C1_OversizeAlways413 ==
  \A r \in Reqs :
    (Done(r) /\ up[r].file.content.size > MAX_FILE_SIZE_BYTES)
      => (up[r].status = 413 /\ NothingDone(r))

\* C1 amended: an upload longer than MAX_FILE_SIZE_BYTES is always rejected
\* before any extraction or decoding and writes no file; the answer is 413
\* exactly when the extension, MIME type and cemetery checks, which run first,
\* pass, and the 400 / 404 of the first failing check otherwise.
C1_OversizeRejected ==
  \A r \in Reqs :
    (Done(r) /\ up[r].file.content.size > MAX_FILE_SIZE_BYTES)
      => /\ NothingDone(r)
         /\ up[r].status \in {400, 404, 413}
         /\ (up[r].status = 413) <=> PassesEarlierChecks(up[r].file)

C1_Witness ==
  \E r \in Reqs :
    /\ Done(r) /\ up[r].status = 413
    /\ up[r].file.content.size = MAX_FILE_SIZE_BYTES + 1
    /\ fs = <<>>

C3_StorageFailureAborts ==
  \A r \in Reqs :
    hist[r].write_failed
      => /\ Done(r) /\ up[r].status = 500
         /\ hist[r].thumb = "none" /\ hist[r].preview = "none"
         /\ up[r].original_path = None
         /\ \A ph \in photographs :
              /\ ph.file_path \notin hist[r].written
              /\ \A a \in allocs : a.req = r => ph.file_path # a.path

C3_Witness ==
  \E r \in Reqs :
    /\ hist[r].write_failed /\ Done(r)
    /\ \E p \in hist[r].written : InStorage(p) /\ p \in DOMAIN fs /\ ~fs[p].whole

StageOrder ==
  <<"Received", "Validated", "MetadataExtracted", "OriginalPersisted",
    "DerivativesAttempted", "Complete">>

\* C4: the stages of a request are passed in the order Received, Validated,
\* MetadataExtracted, OriginalPersisted, DerivativesAttempted, Complete (a
\* request that ends early stops with Rejected or Failed), and each derivative
\* attempt comes after the original is written and reads the original's path,
\* not the staging copy.
C4_StageOrder ==
  \A r \in Reqs :
    LET st == hist[r].stages
        run == IF st # <<>> /\ st[Len(st)] \in {"Rejected", "Failed"}
               THEN SubSeq(st, 1, Len(st) - 1) ELSE st
    IN /\ IsPrefix(run, StageOrder)
       /\ up[r].status = 201 => st = StageOrder
       /\ hist[r].thumb # "none"
            => /\ Has(st, "OriginalPersisted")
               /\ hist[r].thumb_src = up[r].original_path
               /\ hist[r].thumb_src # up[r].temp_path
               /\ InStorage(hist[r].thumb_src)
       /\ hist[r].preview # "none"
            => /\ Has(st, "OriginalPersisted") /\ hist[r].thumb # "none"
               /\ hist[r].preview_src = up[r].original_path
               /\ hist[r].preview_src # up[r].temp_path
               /\ InStorage(hist[r].preview_src)

C4_Witness ==
  \E r \in Reqs :
    /\ up[r].status = 201 /\ hist[r].stages = StageOrder
    /\ hist[r].thumb = "ok" /\ hist[r].preview = "ok"

\* C5: once the staging file of a request has been created, it is gone when
\* the request has ended, on every exit path.
C5_StagingFileDeleted ==
  \A r \in Reqs :
    (Done(r) /\ hist[r].staged)
      => \A p \in DOMAIN fs : InTmp(p) => writer[p] # r

\* C6: no two path allocations of different requests or different roles give
\* the same path, and every file in the storage tree was written by the
\* request its path was allocated to: no request overwrites another's file.
C6_NoPathCollision ==
  /\ \A a, b \in allocs :
       a.path = b.path => (a.req = b.req /\ a.uuid = b.uuid /\ a.suffix = b.suffix)
  /\ \A a, b \in allocs :
       (a.uuid = b.uuid /\ a.suffix # b.suffix) => a.path # b.path
  /\ \A p \in DOMAIN fs :
       InStorage(p) => \A a \in allocs : a.path = p => a.req = writer[p]

C6_Witness ==
  \E r, q \in Reqs :
    /\ r # q
    /\ up[r].pc = "saved" /\ up[q].pc = "saved"
    /\ Parent(up[r].original_path) = Parent(up[q].original_path)
    /\ up[r].file_ext = up[q].file_ext
    /\ up[r].thumbnail_path # None /\ up[q].thumbnail_path # None
    /\ up[r].preview_path # None /\ up[q].preview_path # None
    /\ Cardinality({a.path : a \in allocs}) = 6

\* C7: when the original and both derivatives are produced, the three files
\* lie in one year/month directory.
C7_OneDirectory ==
  \A r \in Reqs :
    (up[r].original_path # None /\ up[r].thumbnail_path # None
       /\ up[r].preview_path # None)
      => /\ Parent(up[r].thumbnail_path) = Parent(up[r].original_path)
         /\ Parent(up[r].preview_path) = Parent(up[r].original_path)

\* the year/month components for each instant the clock of the model can show
ShardOf(now) ==
  LET y == CASE now.year = 2024 -> "2024" [] now.year = 2025 -> "2025"
             [] now.year = 2026 -> "2026"
      m == CASE now.month = 1 -> "01" [] now.month = 2 -> "02" [] now.month = 3 -> "03"
             [] now.month = 4 -> "04" [] now.month = 5 -> "05" [] now.month = 6 -> "06"
             [] now.month = 7 -> "07" [] now.month = 8 -> "08" [] now.month = 9 -> "09"
             [] now.month = 10 -> "10" [] now.month = 11 -> "11" [] now.month = 12 -> "12"
  IN <<y, m>>

\* C8: every path _get_storage_path returns is root/YYYY/MM/identifier + suffix
\* + extension with YYYY/MM the clock at the call, the suffix empty, _thumb or
\* _preview, the extension of a derivative .jpg; its directory exists from
\* then on; and the paths the request reports are the ones allocated for the
\* original, the thumbnail and the preview.
C8_PathLayout ==
  /\ \A a \in allocs :
       /\ a.path = <<"app", "photos">> \o ShardOf(a.now)
                     \o <<a.uuid \o a.suffix \o Join(a.ext)>>
       /\ a.suffix \in {"", "_thumb", "_preview"}
       /\ a.suffix # "" => a.ext = <<".", "j", "p", "g">>
       /\ Parent(a.path) \in dirs /\ Parent(Parent(a.path)) \in dirs
  /\ \A r \in Reqs :
       /\ up[r].original_path # None =>
            \E a \in allocs : a.req = r /\ a.suffix = "" /\ a.path = up[r].original_path
       /\ up[r].thumbnail_path # None =>
            \E a \in allocs : a.req = r /\ a.suffix = "_thumb"
                              /\ a.path = up[r].thumbnail_path
       /\ up[r].preview_path # None =>
            \E a \in allocs : a.req = r /\ a.suffix = "_preview"
                              /\ a.path = up[r].preview_path

C8_Witness ==
  \E a, b \in allocs :
    /\ a.suffix = "_preview" /\ a.now = [year |-> 2025, month |-> 1]
    /\ a.path[3] = "2025" /\ a.path[4] = "01"
    /\ b.suffix = "" /\ b.ext = <<>> /\ b.path[5] = b.uuid
    /\ Parent(a.path) \in dirs

\* C9: from the moment the original is written, the file at its path holds
\* exactly the uploaded bytes, and until the request ends the staging file
\* holds them too: no later step changes either.
C9_OriginalVerbatim ==
  \A r \in Reqs :
    /\ (up[r].original_path # None /\ ~hist[r].write_failed)
         => /\ up[r].original_path \in DOMAIN fs
            /\ fs[up[r].original_path] = up[r].file.content
    /\ up[r].pc \in {"staged", "extracted", "persisted", "thumbed", "saved"}
         => /\ up[r].temp_path \in DOMAIN fs
            /\ fs[up[r].temp_path] = up[r].file.content

C9_Witness ==
  \E r \in Reqs :
    /\ up[r].status = 201
    /\ up[r].thumbnail_path \in DOMAIN fs /\ up[r].preview_path \in DOMAIN fs
    /\ fs[up[r].original_path] = JpegBytes

\* the instant each well-formed date value of the model names
InstantOf(v) ==
  CASE v = <<"2","0","2","4",":","0","1",":","1","5"," ","1","4",":","3","0",":","0","0">>
         -> <<2024, 1, 15, 14, 30, 0>>
    [] v = <<"2","0","2","3",":","1","2",":","3","1"," ","2","3",":","5","9",":","5","9">>
         -> <<2023, 12, 31, 23, 59, 59>>
    [] v = <<"2","0","2","0",":","0","2",":","2","9"," ","0","0",":","0","0",":","0","0">>
         -> <<2020, 2, 29, 0, 0, 0>>

\* C10: with well-formed values, _extract_date_taken reports DateTimeOriginal
\* if present, else DateTimeDigitized if present, else DateTime if present,
\* and no date when all three are missing.
C10_DateFallbackOrder ==
  (call.op = "_extract_date_taken" /\ call.done)
    => LET o == call.arg.Exif.DateTimeOriginal
           d == call.arg.Exif.DateTimeDigitized
           m == call.arg.Zeroth.DateTime
       IN ({o, d, m} \subseteq WellFormedDates \cup {<<>>})
            => call.result = IF o # <<>> THEN InstantOf(o)
                             ELSE IF d # <<>> THEN InstantOf(d)
                             ELSE IF m # <<>> THEN InstantOf(m)
                             ELSE None

C10_Witness ==
  /\ call.op = "_extract_date_taken" /\ call.done
  /\ call.arg.Exif.DateTimeOriginal = <<>>
  /\ call.arg.Exif.DateTimeDigitized \in WellFormedDates
  /\ call.arg.Zeroth.DateTime \in WellFormedDates
  /\ call.arg.Zeroth.DateTime # call.arg.Exif.DateTimeDigitized
  /\ call.result = InstantOf(call.arg.Exif.DateTimeDigitized)

\* C11: a present date tag that does not parse is treated as absent and the
\* chain proceeds: the date reported is that of the first candidate, in the
\* order DateTimeOriginal, DateTimeDigitized, DateTime, whose value parses.
C11_UnparsableTagSkipped ==
  (call.op = "_extract_date_taken" /\ call.done)
    => LET o == call.arg.Exif.DateTimeOriginal
           d == call.arg.Exif.DateTimeDigitized
           m == call.arg.Zeroth.DateTime
       IN call.result = IF o \in WellFormedDates THEN InstantOf(o)
                        ELSE IF d \in WellFormedDates THEN InstantOf(d)
                        ELSE IF m \in WellFormedDates THEN InstantOf(m)
                        ELSE None

\* ---- the EXIF service
DmsCall == call.op = "_dms_to_decimal" /\ call.done
GpsCall == call.op = "_extract_gps" /\ call.done
MetadataCall == call.op = "extract_metadata" /\ call.done
HasZeroDenominator(dms) == dms # <<>> /\ \E i \in 1..3 : dms[i][2] = 0
AnyMissing(gps_ifd) ==
  \/ gps_ifd.GPSLatitude = <<>> \/ gps_ifd.GPSLatitudeRef = <<>>
  \/ gps_ifd.GPSLongitude = <<>> \/ gps_ifd.GPSLongitudeRef = <<>>

\* C12: when any of the four GPS tags is missing _extract_gps returns None,
\* and in every record extract_metadata returns gps_latitude and
\* gps_longitude are both None or both set.
C12_GpsAllOrNothing ==
  /\ GpsCall => (AnyMissing(call.arg.GPS) => call.result = Returned(None))
  /\ MetadataCall =>
       ((call.result.value.gps_latitude = None)
          <=> (call.result.value.gps_longitude = None))

C12_Witness ==
  /\ GpsCall
  /\ call.arg.GPS.GPSLatitude = GoodLatitude /\ call.arg.GPS.GPSLatitudeRef = <<"N">>
  /\ call.arg.GPS.GPSLongitude = GoodLongitude /\ call.arg.GPS.GPSLongitudeRef = <<>>
  /\ call.result = Returned(None)

\* C13: a GPS coordinate extract_metadata reports has its latitude in
\* [-90, 90] and its longitude in [-180, 180].
C13_GpsInRange ==
  (MetadataCall /\ call.result.value.gps_latitude # None)
    => LET lat == call.result.value.gps_latitude[1]
           lon == call.result.value.gps_longitude[1]
       IN /\ -90 * lat.den <= lat.num /\ lat.num <= 90 * lat.den
          /\ -180 * lon.den <= lon.num /\ lon.num <= 180 * lon.den

Upper(ref) ==
  CASE ref = <<"n">> -> <<"N">> [] ref = <<"s">> -> <<"S">>
    [] ref = <<"e">> -> <<"E">> [] ref = <<"w">> -> <<"W">> [] OTHER -> ref

\* C14: _dms_to_decimal reads the hemisphere without regard to case: s, w, n
\* and e give what S, W, N and E give for the same triple.
C14_RefCaseInsensitive ==
  (DmsCall /\ call.arg.ref \in {<<"n">>, <<"s">>, <<"e">>, <<"w">>})
    => call.result = _dms_to_decimal(call.arg.dms, Upper(call.arg.ref))

NonZeroDenominators(dms) == \A i \in 1..3 : dms[i][2] # 0

GoodRecordNoGps ==
  [date_taken |-> <<2024, 1, 15, 14, 30, 0>>,
   gps_latitude |-> None, gps_longitude |-> None,
   camera_make |-> <<"C","a","n","o","n">>, camera_model |-> <<"E","O","S">>,
   focal_length |-> <<"50mm">>, aperture |-> <<"f/2.8">>,
   shutter_speed |-> <<"0.75s">>, iso |-> <<100>>,
   image_width |-> <<3000>>, image_height |-> <<2000>>]

\* C16: a zero denominator in any rational of the latitude or the longitude
\* makes _extract_gps return None without raising, and extract_metadata
\* then reports no coordinate and every other field as usual.
C16_ZeroDenominatorNoGps ==
  /\ GpsCall =>
       ((~AnyMissing(call.arg.GPS)
           /\ (HasZeroDenominator(call.arg.GPS.GPSLatitude)
                 \/ HasZeroDenominator(call.arg.GPS.GPSLongitude)))
          => call.result = Returned(None))
  /\ MetadataCall =>
       \A g \in GpsIfds :
         (call.arg.image = ImageWith([GoodExif EXCEPT !.GPS = g])
            /\ ~AnyMissing(g)
            /\ (HasZeroDenominator(g.GPSLatitude) \/ HasZeroDenominator(g.GPSLongitude)))
           => call.result = Returned(GoodRecordNoGps)

C16_Witness ==
  /\ MetadataCall
  /\ call.arg.image.exif.GPS =
       [GPSLatitude |-> <<<<40, 1>>, <<42, 1>>, <<46, 0>>>>, GPSLatitudeRef |-> <<"N">>,
        GPSLongitude |-> GoodLongitude, GPSLongitudeRef |-> <<"W">>]
  /\ call.arg.image.exif.Zeroth.Make = <<"C","a","n","o","n">>
  /\ call.result = Returned(GoodRecordNoGps)

WellFormedOrMissing(exif_dict) ==
  /\ exif_dict.Exif.DateTimeOriginal \in {<<>>, GoodExif.Exif.DateTimeOriginal}
  /\ exif_dict.Exif.FocalLength \in {<<>>, <<50, 1>>}
  /\ exif_dict.Exif.FNumber \in {<<>>, <<28, 10>>}
  /\ exif_dict.Exif.ExposureTime \in {<<>>, <<1, 250>>, <<3, 4>>}
  /\ exif_dict.GPS = GoodExif.GPS

\* C17: when the one malformed tag of a file is the Make, the Model or the
\* ISO value, extract_metadata reports that field as None and reports every
\* field whose tag is present and well-formed.
C17_TagFailureIsolated ==
  (MetadataCall /\ call.arg.image.exif \in TagExifs
     /\ WellFormedOrMissing(call.arg.image.exif))
    => LET e == call.arg.image.exif
           m == call.result.value
           bad_make == ~DecodesAsUtf8(e.Zeroth.Make)
           bad_model == ~DecodesAsUtf8(e.Zeroth.Model)
           bad_iso == Len(e.Exif.ISOSpeedRatings) > 1
       IN ((bad_make /\ ~bad_model /\ ~bad_iso)
             \/ (~bad_make /\ bad_model /\ ~bad_iso)
             \/ (~bad_make /\ ~bad_model /\ bad_iso))
            => /\ call.result.exc = ""
               /\ m.camera_make = IF bad_make THEN None ELSE e.Zeroth.Make
               /\ m.camera_model = IF bad_model THEN None ELSE e.Zeroth.Model
               /\ m.iso = IF e.Exif.ISOSpeedRatings = <<100>> THEN <<100>> ELSE None
               /\ m.focal_length = IF e.Exif.FocalLength = <<>> THEN None ELSE <<"50mm">>
               /\ m.aperture = IF e.Exif.FNumber = <<>> THEN None ELSE <<"f/2.8">>
               /\ m.shutter_speed = IF e.Exif.ExposureTime = <<>> THEN None
                                    ELSE IF e.Exif.ExposureTime = <<1, 250>>
                                    THEN <<"1/250">> ELSE <<"0.75s">>
               /\ m.date_taken = IF e.Exif.DateTimeOriginal = <<>> THEN None
                                 ELSE <<2024, 1, 15, 14, 30, 0>>
               /\ m.gps_latitude # None /\ m.gps_longitude # None

ElevenKeys ==
  {"date_taken", "gps_latitude", "gps_longitude", "camera_make", "camera_model",
   "focal_length", "aperture", "shutter_speed", "iso", "image_width", "image_height"}

\* the requests whose call of extract_metadata is over
PastExtraction(r) == up[r].temp_path # None /\ up[r].pc # "staged"

\* C18: extract_metadata always returns to upload_photo, with a record of the
\* eleven keys that is all None when the staged bytes cannot be opened as an
\* image; no request ends at the extraction, so the persist step follows.
C18_MetadataNeverRaises ==
  \A r \in Reqs :
    /\ DOMAIN up[r].exif_data = ElevenKeys
    /\ PastExtraction(r) =>
         /\ Has(hist[r].stages, "MetadataExtracted")
         /\ ~up[r].file.content.image.ok => up[r].exif_data = NoMetadata
    /\ (Done(r) /\ ~Has(hist[r].stages, "MetadataExtracted")) => up[r].temp_path = None

C18_Witness ==
  \E r, q \in Reqs :
    /\ up[r].file.content = GarbageBytes /\ up[r].pc = "persisted"
    /\ up[r].exif_data = NoMetadata
    /\ up[r].original_path \in DOMAIN fs
    /\ up[q].file.content = MalformedJpegBytes /\ up[q].pc = "persisted"
    /\ up[q].exif_data.camera_make = None /\ up[q].exif_data.date_taken # None

\* C19: whenever the staged image opened, the record carries its width and
\* height, whatever the EXIF parsing did afterwards; for an image without an
\* EXIF segment every other field is None.  Such an upload is persisted and
\* its derivatives are generated like any other.
C19_DimensionsWithoutExif ==
  \A r \in Reqs :
    PastExtraction(r) =>
      LET img == up[r].file.content.image
      IN /\ img.ok => /\ up[r].exif_data.image_width = <<img.width>>
                      /\ up[r].exif_data.image_height = <<img.height>>
         /\ (img.ok /\ ~img.has_exif) =>
              up[r].exif_data = [NoMetadata EXCEPT !.image_width = <<img.width>>,
                                                   !.image_height = <<img.height>>]

C19_Witness ==
  \E r \in Reqs :
    /\ up[r].file.content = PngBytes /\ up[r].status = 201
    /\ up[r].exif_data = [NoMetadata EXCEPT !.image_width = <<100>>,
                                            !.image_height = <<80>>]
    /\ fs[up[r].original_path] = PngBytes
    /\ hist[r].thumb = "ok" /\ hist[r].preview = "ok"
    /\ up[r].thumbnail_path \in DOMAIN fs /\ up[r].preview_path \in DOMAIN fs

\* C20: a focal length, F-number or exposure time whose denominator is zero
\* gives no formatted string, whatever its numerator.
C20_ZeroDenominatorNoString ==
  (MetadataCall /\ call.arg.image.exif \in TagExifs)
    => LET e == call.arg.image.exif.Exif
           m == call.result.value
       IN /\ (e.FocalLength # <<>> /\ e.FocalLength[2] = 0) => m.focal_length = None
          /\ (e.FNumber # <<>> /\ e.FNumber[2] = 0) => m.aperture = None
          /\ (e.ExposureTime # <<>> /\ e.ExposureTime[2] = 0) => m.shutter_speed = None

\* ---- the generators
\* the output <<x, y>> fits the box, does not exceed the source w x h in
\* either dimension, is the source when that fits, and has the aspect ratio
\* of the source up to the rounding of one side to a whole pixel
FitsShrunk(x, y, w, h, box) ==
  /\ x >= 1 /\ y >= 1
  /\ x <= box[1] /\ y <= box[2]
  /\ x <= w /\ y <= h
  /\ (w <= box[1] /\ h <= box[2]) => (x = w /\ y = h)
  /\ Abs(x * h - y * w) < (IF w > h THEN w ELSE h)

DeleteCalls == IF call.op = "delete_photo_with_thumbnails" THEN call.result ELSE <<>>
Given(paths) == {paths[1], paths[2], paths[3]} \ {None}

\* what every call does: True exactly when every given path was a file and
\* is gone, every given path tried, nothing raised, nothing else touched
DeletesAll(d) ==
  /\ d.exc = ""
  /\ d.value <=> \A p \in Given(call.arg) : p \in d.before /\ p \notin d.after
  /\ d.tried = Given(call.arg)
  /\ d.after \subseteq d.before
  /\ d.before \ d.after \subseteq Given(call.arg)

CemeteryCall == call.op \in {"delete", "restore"}

\* the return value and the visibility afterwards, for delete and restore
LifeCycle ==
  /\ call.op = "delete" =>
       /\ call.result.value <=> /\ call.arg \in DOMAIN call.result.before
                                /\ call.result.before[call.arg].deleted_at = None
       /\ call.result.value => get_by_id(cemeteries, call.arg, FALSE) = None
  /\ call.op = "restore" =>
       /\ call.result.value <=> /\ call.arg \in DOMAIN call.result.before
                                /\ call.result.before[call.arg].deleted_at # None
       /\ call.result.value => get_by_id(cemeteries, call.arg, FALSE) = <<call.arg>>

\* no row is removed, and outside the columns in except no row changes
RowsKept(except) ==
  /\ DOMAIN cemeteries = DOMAIN call.result.before
  /\ \A c \in DOMAIN cemeteries :
       /\ get_by_id(cemeteries, c, TRUE) = <<c>>
       /\ \A col \in DOMAIN cemeteries[c] \ except :
            cemeteries[c][col] = call.result.before[c][col]

\* C23 as stated: ... neither operation ever removes the record or changes
\* any field other than deleted_at.
C23_OnlyDeletedAt == CemeteryCall => RowsKept({"deleted_at"})

\* C23: over any sequence of delete and restore calls, delete returns True
\* exactly when the cemetery exists and is not already soft-deleted and then
\* get_by_id (default) returns None for it; restore returns True exactly when
\* the cemetery is currently soft-deleted and then get_by_id returns it
\* again; neither operation ever removes the record (get_by_id with
\* include_deleted = True always finds it) or changes any field other than
\* deleted_at and updated_at.
C23_SoftDeleteLifeCycle ==
  CemeteryCall => LifeCycle /\ RowsKept({"deleted_at", "updated_at"})

C23_Witness ==
  /\ call.op = "restore" /\ call.arg = 1 /\ call.result.value
  /\ call.result.before[1].deleted_at # None
  /\ cemeteries[1].deleted_at = None
  /\ cemeteries[2].deleted_at # None

AnyExifField(ph) ==
  \E col \in {"exif_date_taken", "exif_gps_location", "exif_camera_make",
              "exif_camera_model", "exif_focal_length", "exif_aperture",
              "exif_shutter_speed", "exif_iso"} : ph[col] # None

\* C24: has_exif is True whenever at least one of the EXIF-derived fields
\* (date taken, GPS location, camera make, camera model, focal length,
\* aperture, shutter speed, ISO) is non-null, and the response of get_photo
\* carries exif_metadata for every such photograph.
C24_HasExifForAnyField ==
  (call.op = "get_photo" /\ call.done /\ call.result.status = 200)
    => \A ph \in photographs :
         AnyExifField(ph) => has_exif(ph) /\ call.result.response[1].exif_metadata # None

\* ---- the record of an upload
Created(r) == up[r].pc = "done" /\ up[r].status = 201
RowOf(r) == {ph \in photographs : ph.uuid = up[r].photo_uuid}

\* C29: whenever extract_metadata reports a GPS coordinate pair for an
\* upload, upload_photo stores a GPS location on the photograph record, for
\* every coordinate value including a latitude or a longitude of exactly 0.
C29_GpsStored ==
  \A r \in Reqs :
    (Created(r) /\ up[r].exif_data.gps_latitude # None /\ up[r].exif_data.gps_longitude # None)
      => \A ph \in RowOf(r) : ph.exif_gps_location # None

\* C30: after any upload_photo request that ends in an error, no original,
\* thumbnail or preview file of that request remains in the storage tree.
C30_NoOrphanFiles ==
  \A r \in Reqs :
    (up[r].pc = "done" /\ up[r].status >= 400)
      => \A q \in DOMAIN fs : InStorage(q) => writer[q] # r

\* ---- the tagging application
\* C25: any two uploads handled by the upload route, including two uploads
\* of the same file name within the same clock second, are stored under
\* different paths, so no upload overwrites the file of an earlier one.
C25_StoredPathsDiffer ==
  \A i \in 1..Len(images) : \A j \in 1..Len(images) :
    i # j => images[i].filepath # images[j].filepath

TagsCall == call.op = "normalize_tags" /\ call.done
TagsOf(text) == IF text = <<>> THEN <<>> ELSE Split(text, ",")
FirstAt(parts, tag) == CHOOSE i \in 1..Len(parts) : parts[i] = tag /\ \A k \in 1..(i - 1) : parts[k] # tag

\* the tags of out are those of the input, lower-cased and stripped, without
\* the empty ones, each once and in the order of their first occurrence
NormalForm(input, out) ==
  LET tags == TagsOf(out)
      parts == [i \in 1..Len(Split(input, ",")) |-> Lower(Strip(Split(input, ",")[i]))]
  IN /\ \A i \in 1..Len(tags) :
          /\ tags[i] # <<>>
          /\ Lower(tags[i]) = tags[i]
          /\ Strip(tags[i]) = tags[i]
          /\ \A j \in 1..Len(tags) : i # j => tags[i] # tags[j]
     /\ {tags[i] : i \in 1..Len(tags)} = {parts[i] : i \in 1..Len(parts)} \ {<<>>}
     /\ \A i \in 1..Len(tags) : \A j \in 1..Len(tags) :
          i < j => FirstAt(parts, tags[i]) < FirstAt(parts, tags[j])

\* C26: normalize_tags returns a comma-joined list of tags that are
\* lowercase, stripped, non-empty and pairwise distinct, in the order of
\* first occurrence in the input; it is idempotent, and returns the empty
\* string for empty or whitespace-only input.
C26_NormalizedTags ==
  TagsCall =>
    /\ NormalForm(call.arg, call.result)
    /\ normalize_tags(call.result) = call.result
    /\ (\A i \in 1..Len(call.arg) : IsSpace(call.arg[i])) => call.result = <<>>

C26_Witness ==
  /\ TagsCall
  /\ call.arg = <<"A", ",", " ", "b", "a">>
  /\ call.result = <<"a", ",", "b", "a">>

\* ---- the DMS formula
HemisphereSign(ref) == IF ref \in {<<"S">>, <<"W">>} THEN -1 ELSE 1

\* a fraction in lowest terms
RECURSIVE Gcd(_, _)
Gcd(a, b) == IF b = 0 THEN a ELSE Gcd(b, a % b)
Lowest(num, den) ==
  LET g == Gcd(IF num < 0 THEN -num ELSE num, den)
  IN [num |-> num \div g, den |-> den \div g]

\* C27: _dms_to_decimal computes degrees + minutes/60 + seconds/3600 from
\* the three rationals and negates the sum exactly when the hemisphere is S
\* or W; for whole degrees, minutes and seconds (d, m, s) the result times
\* 3600 is d*3600 + m*60 + s up to that sign.
C27_DmsFormula ==
  (DmsCall /\ ~HasZeroDenominator(call.arg.dms) /\ DecodesAsUtf8(call.arg.ref))
    => LET dms == call.arg.dms
           v == call.result.value
           sign == HemisphereSign(call.arg.ref)
       IN /\ call.result.exc = ""
          /\ v.den > 0
          /\ Lowest(v.num, v.den)
               = Lowest(sign * (dms[1][1] * dms[2][2] * dms[3][2] * 3600
                                  + dms[2][1] * dms[1][2] * dms[3][2] * 60
                                  + dms[3][1] * dms[1][2] * dms[2][2]),
                        dms[1][2] * dms[2][2] * dms[3][2] * 3600)
          /\ (\A i \in 1..3 : dms[i][2] = 1)
               => Lowest(v.num, v.den)
                    = Lowest(sign * (dms[1][1] * 3600 + dms[2][1] * 60 + dms[3][1]), 3600)

\* 74 deg 0 min 21 s W gives -266421/3600
C27_Witness ==
  /\ DmsCall
  /\ call.arg.dms = GoodLongitude /\ call.arg.ref = <<"W">>
  /\ Lowest(call.result.value.num, call.result.value.den) = Lowest(-266421, 3600)

\* ---- the shutter speed
TechnicalCall == call.op = "_extract_technical_info" /\ call.done

\* h hundredths written with two decimals and the unit
Hundredths(h) == DecStr(h \div 100) \o "." \o ZeroPad(h % 100, 2) \o "s"

\* text is n / d rounded to two decimals, followed by "s"
IsRounded(text, n, d) ==
  \E h \in ((100 * n) \div d)..((100 * n) \div d + 1) :
    /\ text = Hundredths(h)
    /\ 2 * Abs(h * d - 100 * n) <= d

\* C28: for an exposure time (n, d) with d # 0 the shutter speed is "1/d"
\* when n = 1, whatever d is (so (1, 1) gives "1/1"), and otherwise n / d
\* rounded to two decimal places followed by "s" ((3, 4) gives "0.75s").
C28_ShutterSpeedText ==
  (TechnicalCall /\ call.arg.Exif.ExposureTime # <<>> /\ call.arg.Exif.ExposureTime[2] # 0)
    => LET n == call.arg.Exif.ExposureTime[1]
           d == call.arg.Exif.ExposureTime[2]
           shutter_speed == call.result.value.shutter_speed
       IN /\ call.result.exc = ""
          /\ shutter_speed # None
          /\ n = 1 => shutter_speed[1] = "1/" \o DecStr(d)
          /\ n # 1 => IsRounded(shutter_speed[1], n, d)
          /\ (n = 3 /\ d = 4) => shutter_speed[1] = "0.75s"
          /\ (n = 1 /\ d = 1) => shutter_speed[1] = "1/1"

C28_Witness ==
  /\ TechnicalCall
  /\ call.arg.Exif.ExposureTime = <<3, 4>>
  /\ call.result.value.shutter_speed = <<"0.75s">>

====
